---- MODULE Spec2Model ----
(***************************************************************************)
(* A model of the VLBI header engine of scintellometry.io: the bit-field   *)
(* getters and setters and the parser tables of vlbi_helpers.py, and the   *)
(* VDIF header classes of vdif/header.py.                                  *)
(*                                                                         *)
(* Python integers are unbounded, and header words and sync patterns       *)
(* exceed 2^31, so an integer is modelled by the set of positions of its   *)
(* one-bits: & is intersection, | is union, ^ is symmetric difference and  *)
(* a shift moves every position.  A Python value carries its type, since   *)
(* the code distinguishes None, False and 0 (`is None`, `is False`) while  *)
(* a dictionary lookup and == do not distinguish False from 0.             *)
(***************************************************************************)
EXTENDS Integers, Sequences, FiniteSets, TLC

(***************************************************************************)
(* Integers as bit sets.                                                   *)
(***************************************************************************)
\* The bit set of a small natural number n (n < 2^31).
Bits(n) == {i \in 0..30 : (n \div (2^i)) % 2 = 1}

RECURSIVE Num(_)
\* The natural number of a bit set (only used below 2^31).
Num(S) == IF S = {} THEN 0
          ELSE LET i == CHOOSE j \in S : TRUE IN 2^i + Num(S \ {i})

\* (1 << bit_length) - 1
Ones(bit_length) == 0..(bit_length - 1)
\* x << k and x >> k
Shl(S, k) == {i + k : i \in S}
Shr(S, k) == {i - k : i \in {j \in S : j >= k}}
\* x ^ y
Xor(S, T) == (S \ T) \cup (T \ S)
\* The 32-bit number with high half hi and low half lo (both below 2^16).
Hex32(hi, lo) == Shl(Bits(hi), 16) \cup Bits(lo)

(***************************************************************************)
(* Python values: None, bool, int >= 0 (bits b), int < 0 (b holds the bits *)
(* of the complement ~v, so -1 has b = {}).                                *)
(***************************************************************************)
None == [k |-> "none", b |-> {}]
PyInt(S) == [k |-> "int", b |-> S]
PyNeg(S) == [k |-> "neg", b |-> S]
PyBool(t) == [k |-> "bool", b |-> IF t THEN {0} ELSE {}]
PyTrue == PyBool(TRUE)
PyFalse == PyBool(FALSE)

\* Python's ==, and the key equality of a dict lookup: True == 1, False == 0,
\* None equals only None.
PyEq(x, y) ==
    IF x.k = "none" \/ y.k = "none" THEN x.k = y.k
    ELSE /\ (x.k = "neg") = (y.k = "neg")
         /\ x.b = y.b
\* Python's truth value: bool(x).
Truthy(x) == x.k = "neg" \/ x.b # {}

(***************************************************************************)
(* vlbi_helpers.py: struct codecs '<4I' and '<8I'.  A byte string is a     *)
(* sequence of numbers 0..255, a word vector a sequence of bit sets.       *)
(***************************************************************************)
four_word_size == 16
eight_word_size == 32

\* struct.unpack: little-endian, byte 4i+j supplies bits 8j..8j+7 of word i.
\* Fails (struct.error) unless the length is the struct's size.
StructUnpackable(size, s) == Len(s) = size
StructUnpack(size, s) ==
    [i \in 1..(size \div 4) |->
        UNION {Shl(Bits(s[4 * (i - 1) + j + 1]), 8 * j) : j \in 0..3}]

\* struct.pack: fails (struct.error) unless there are size/4 words, each
\* in 0..2^32-1.
StructPackable(size, words) ==
    /\ Len(words) = size \div 4
    /\ \A i \in 1..Len(words) : words[i] \subseteq 0..31
StructPack(size, words) ==
    [n \in 1..size |->
        Num(Shr(words[((n - 1) \div 4) + 1], 8 * ((n - 1) % 4)) \cap Ones(8))]

(***************************************************************************)
(* vlbi_helpers.py: make_parser and make_setter.  word_index counts from   *)
(* 0 as in the source; sequences here count from 1.                        *)
(***************************************************************************)
make_parser(word_index, bit_index, bit_length, words) ==
    IF bit_length = 1
    THEN PyBool(Shr(words[word_index + 1], bit_index) \cap {0} # {})
    ELSE IF bit_length = 32
    THEN PyInt(words[word_index + 1])
    ELSE LET mask == Ones(bit_length)
         IN  IF bit_index = 0
             THEN PyInt(words[word_index + 1] \cap mask)
             ELSE PyInt(Shr(words[word_index + 1], bit_index) \cap mask)

\* value & bit_mask, for value an int; a negative value has every bit set
\* that its complement has clear.
AndMask(value, bit_mask) ==
    IF value.k = "neg" THEN PyInt(bit_mask \ value.b)
    ELSE PyInt(value.b \cap bit_mask)

\* The result of a call: err = "none" and the value, or the exception.
Ok(v) == [err |-> "none", val |-> v]
Raise(e) == [err |-> e, val |-> <<>>]

\* int(value): TypeError on None, bools become 0 or 1.
IntOf(value) == IF value.k = "bool" THEN PyInt(value.b) ELSE value

\* A setter that masks the value to the field instead of rejecting it.
setter_truncating(word_index, bit_index, bit_length, default, words, value0) ==
    LET value1 == IF value0 = None /\ default # None THEN default ELSE value0
    IN  IF value1 = None THEN Raise("TypeError")
        ELSE
        LET value == IntOf(value1)
            word == words[word_index + 1]
            bit_mask == Ones(bit_length)
            shifted == Shl(bit_mask, bit_index)
            zeroed == Xor(word \cup shifted, shifted)
            new == zeroed \cup Shl(AndMask(value, bit_mask).b, bit_index)
        IN  Ok([words EXCEPT ![word_index + 1] = new])

\* A setter that does not zero the field before it adds the value.
setter_no_clear(word_index, bit_index, bit_length, default, words, value0) ==
    LET value1 == IF value0 = None /\ default # None THEN default ELSE value0
    IN  IF value1 = None THEN Raise("TypeError")
        ELSE IF word_index + 1 > Len(words) THEN Raise("IndexError")
        ELSE
        LET value == IntOf(value1)
            bit_mask == Ones(bit_length)
        IN  IF ~PyEq(AndMask(value, bit_mask), value) THEN Raise("ValueError")
            ELSE Ok([words EXCEPT ![word_index + 1] =
                        @ \cup Shl(value.b, bit_index)])

make_setter(word_index, bit_index, bit_length, default, words, value0) ==
    LET value1 == IF value0 = None /\ default # None THEN default ELSE value0
    IN  IF value1 = None THEN Raise("TypeError")
        ELSE IF word_index + 1 > Len(words) THEN Raise("IndexError")
        ELSE
        LET value == IntOf(value1)
            word == words[word_index + 1]
            bit_mask == Ones(bit_length)
        IN  IF ~PyEq(AndMask(value, bit_mask), value) THEN Raise("ValueError")
            ELSE
            LET shifted == Shl(bit_mask, bit_index)
                zeroed == Xor(word \cup shifted, shifted)
                new == zeroed \cup Shl(value.b, bit_index)
            IN  Ok([words EXCEPT ![word_index + 1] = new])

(***************************************************************************)
(* vlbi_helpers.py: HeaderParser, an ordered dict from field name to the   *)
(* definition (word_index, bit_index, bit_length[, default]), with a       *)
(* second dict `parsers` of precomputed getters.  A getter is the closure  *)
(* over (word_index, bit_index, bit_length), so it is modelled by that     *)
(* triple.  A definition without default has dflt = None.                  *)
(***************************************************************************)
Fd(name, word_index, bit_index, bit_length, dflt) ==
    [name |-> name,
     def |-> [word |-> word_index, lsb |-> bit_index, len |-> bit_length,
              dflt |-> dflt]]

Keys(items) == {items[i].name : i \in 1..Len(items)}
\* d[name] of an ordered dict, for a name it holds.
Lookup(items, name) ==
    items[CHOOSE i \in 1..Len(items) : items[i].name = name].def
\* d[name] = def of an ordered dict: a held key keeps its position.
OrderedSet(items, kv) ==
    IF kv.name \in Keys(items)
    THEN [i \in 1..Len(items) |->
              IF items[i].name = kv.name THEN kv ELSE items[i]]
    ELSE Append(items, kv)
\* A variant of update under which the fields new to the table are
\* appended in reverse order.
RECURSIVE UpdateReversed(_, _)
UpdateReversed(items, pairs) ==
    IF pairs = <<>> THEN items
    ELSE OrderedSet(UpdateReversed(items, Tail(pairs)), Head(pairs))

RECURSIVE OrderedUpdate(_, _)
\* OrderedDict.update(other) and OrderedDict(pairs): the pairs in order.
OrderedUpdate(items, pairs) ==
    IF pairs = <<>> THEN items
    ELSE OrderedUpdate(OrderedSet(items, Head(pairs)), Tail(pairs))

\* make_parser(*v[:3]) as a closure.
ParserOf(def) == [word |-> def.word, lsb |-> def.lsb, len |-> def.len]
\* dict.update on the parsers.
ParsersUpdate(parsers, other) ==
    [n \in DOMAIN parsers \cup DOMAIN other |->
        IF n \in DOMAIN other THEN other[n] ELSE parsers[n]]
\* A variant that keeps the getter a name already has.
ParsersKeep(parsers, other) ==
    [n \in DOMAIN parsers \cup DOMAIN other |->
        IF n \in DOMAIN parsers THEN parsers[n] ELSE other[n]]

\* HeaderParser.__init__
HeaderParser(pairs) ==
    LET items == OrderedUpdate(<<>>, pairs)
    IN  [items |-> items,
         parsers |-> [n \in Keys(items) |-> ParserOf(Lookup(items, n))]]

\* An update that leaves the precomputed getters as they were.
HeaderParserUpdateStale(self, other) ==
    [items |-> OrderedUpdate(self.items, other.items),
     parsers |-> ParsersKeep(self.parsers, other.parsers)]

\* HeaderParser.update
HeaderParserUpdate(self, other) ==
    [items |-> OrderedUpdate(self.items, other.items),
     parsers |-> ParsersUpdate(self.parsers, other.parsers)]

\* HeaderParser.__add__: result = self.copy(); result.update(other).
\* OrderedDict.copy() is self.__class__(self) (the OrderedDict of Python 2.7,
\* for which the package is written), so the copy computes its parsers anew.
HeaderParserAdd(self, other) ==
    HeaderParserUpdate(HeaderParser(self.items), other)

\* HeaderParser.defaults[key]
DefaultOf(parser, key) == Lookup(parser.items, key).dflt
\* HeaderParser.parsers[key](words)
ParseField(parser, key, words) ==
    LET p == parser.parsers[key]
    IN  make_parser(p.word, p.lsb, p.len, words)
\* HeaderParser.setters[key](words, value)
SetField(parser, key, words, value) ==
    LET d == Lookup(parser.items, key)
    IN  make_setter(d.word, d.lsb, d.len, d.dflt, words, value)


(***************************************************************************)
(* vdif/header.py: the parser tables of the header classes.                *)
(***************************************************************************)
\* 0xACABFEED, 0xa5ea5 and (Mark 5B) 0xABADDEED
SyncSampleRate == Hex32(44203, 65261)
SyncEDV2 == Hex32(10, 24229)
SyncMark5B == Hex32(43949, 57069)
I(n) == PyInt(Bits(n))

VDIFLegacyHeader_parser == HeaderParser(<<
    Fd("invalid_data", 0, 31, 1, PyFalse),
    Fd("legacy_mode", 0, 30, 1, PyTrue),
    Fd("seconds", 0, 0, 30, None),
    Fd("_1_30_2", 1, 30, 2, I(0)),
    Fd("ref_epoch", 1, 24, 6, None),
    Fd("frame_nr", 1, 0, 24, I(0)),
    Fd("vdif_version", 2, 29, 3, I(1)),
    Fd("lg2_nchan", 2, 24, 5, None),
    Fd("frame_length", 2, 0, 24, None),
    Fd("complex_data", 3, 31, 1, None),
    Fd("bits_per_sample", 3, 26, 5, None),
    Fd("thread_id", 3, 16, 10, I(0)),
    Fd("station_id", 3, 0, 16, None) >>)

VDIFBaseHeader_extra == HeaderParser(<<
    Fd("legacy_mode", 0, 30, 1, PyFalse),
    Fd("edv", 4, 24, 8, None) >>)
VDIFBaseHeader_parser ==
    HeaderParserAdd(VDIFLegacyHeader_parser, VDIFBaseHeader_extra)

VDIFSampleRateHeader_extra == HeaderParser(<<
    Fd("sampling_unit", 4, 23, 1, None),
    Fd("sample_rate", 4, 0, 23, None),
    Fd("sync_pattern", 5, 0, 32, PyInt(SyncSampleRate)) >>)
VDIFSampleRateHeader_parser ==
    HeaderParserAdd(VDIFBaseHeader_parser, VDIFSampleRateHeader_extra)

VDIFHeader1_parser ==
    HeaderParserAdd(VDIFSampleRateHeader_parser,
                    HeaderParser(<< Fd("das_id", 6, 0, 64, I(0)) >>))

VDIFHeader3_parser ==
    HeaderParserAdd(VDIFSampleRateHeader_parser, HeaderParser(<<
        Fd("frame_length", 2, 0, 24, I(629)),
        Fd("loif_tuning", 6, 0, 32, I(0)),
        Fd("_7_28_4", 7, 28, 4, I(0)),
        Fd("dbe_unit", 7, 24, 4, I(0)),
        Fd("if_nr", 7, 20, 4, I(0)),
        Fd("subband", 7, 17, 3, I(0)),
        Fd("sideband", 7, 16, 1, PyFalse),
        Fd("major_rev", 7, 12, 4, I(0)),
        Fd("minor_rev", 7, 8, 4, I(0)),
        Fd("personality", 7, 0, 8, None) >>))

VDIFHeader2_parser ==
    HeaderParserAdd(VDIFBaseHeader_parser, HeaderParser(<<
        Fd("complex_data", 3, 31, 1, I(0)),
        Fd("bits_per_sample", 3, 26, 5, I(1)),
        Fd("pol", 4, 0, 1, None),
        Fd("BL_quadrant", 4, 1, 2, None),
        Fd("BL_correlator", 4, 3, 1, None),
        Fd("sync_pattern", 4, 4, 20, PyInt(SyncEDV2)),
        Fd("PIC_status", 5, 0, 32, None),
        Fd("PSN", 6, 0, 64, None) >>))

\* mark5b/header.py is not part of the sources at hand: the fields of the
\* Mark 5B header are those of the canonical fixture (sync_pattern, year,
\* user, internal_tvg, frame_nr, bcd_jday, bcd_seconds, bcd_fraction, crcc)
\* in the Mark 5B word layout, wide enough for the fixture's values.
Mark5BHeader_parser == HeaderParser(<<
    Fd("sync_pattern", 0, 0, 32, PyInt(SyncMark5B)),
    Fd("year", 1, 28, 4, None),
    Fd("user", 1, 16, 12, None),
    Fd("internal_tvg", 1, 15, 1, None),
    Fd("frame_nr", 1, 0, 15, None),
    Fd("bcd_jday", 2, 20, 12, None),
    Fd("bcd_seconds", 2, 0, 20, None),
    Fd("bcd_fraction", 3, 16, 16, None),
    Fd("crcc", 3, 0, 16, None) >>)

\* tuple((k, (v[0]+4,) + v[1:]) for (k, v) in Mark5BHeader._header_parser.items())
ShiftWords(items, n) ==
    [i \in 1..Len(items) |->
        [items[i] EXCEPT !.def.word = items[i].def.word + n]]

VDIFMark5BHeader_parser ==
    HeaderParserAdd(
        HeaderParserAdd(VDIFBaseHeader_parser,
                        HeaderParser(<< Fd("frame_length", 2, 0, 24, I(1254)) >>)),
        HeaderParser(ShiftWords(Mark5BHeader_parser.items, 4)))

\* The header classes.  VDIFHeader itself defines neither _struct nor
\* _header_parser.
Classes == {"VDIFHeader", "VDIFLegacyHeader", "VDIFBaseHeader",
            "VDIFSampleRateHeader", "VDIFHeader1", "VDIFHeader2",
            "VDIFHeader3", "VDIFHeader4", "VDIFMark5BHeader"}
SampleRateClasses == {"VDIFSampleRateHeader", "VDIFHeader1", "VDIFHeader3",
                      "VDIFHeader4"}
BaseClasses == SampleRateClasses \cup
               {"VDIFBaseHeader", "VDIFHeader2", "VDIFMark5BHeader"}
\* issubclass(c, d)
IsSubclass(c, d) ==
    \/ c = d
    \/ d = "VDIFHeader"
    \/ d = "VDIFBaseHeader" /\ c \in BaseClasses
    \/ d = "VDIFSampleRateHeader" /\ c \in SampleRateClasses

HasStruct(cls) == cls # "VDIFHeader"
\* cls._struct.size
StructSize(cls) ==
    IF cls = "VDIFLegacyHeader" THEN four_word_size ELSE eight_word_size
\* cls._header_parser
ParserFor(cls) ==
    CASE cls = "VDIFLegacyHeader" -> VDIFLegacyHeader_parser
      [] cls = "VDIFBaseHeader" -> VDIFBaseHeader_parser
      [] cls = "VDIFSampleRateHeader" -> VDIFSampleRateHeader_parser
      [] cls = "VDIFHeader1" -> VDIFHeader1_parser
      [] cls = "VDIFHeader2" -> VDIFHeader2_parser
      [] cls = "VDIFHeader3" -> VDIFHeader3_parser
      [] cls = "VDIFHeader4" -> VDIFSampleRateHeader_parser
      [] cls = "VDIFMark5BHeader" -> VDIFMark5BHeader_parser

\* vdif_header_classes, in the order of the literal.
vdif_header_classes == <<
    [key |-> PyFalse, cls |-> "VDIFLegacyHeader"],
    [key |-> I(1), cls |-> "VDIFHeader1"],
    [key |-> I(2), cls |-> "VDIFHeader2"],
    [key |-> I(3), cls |-> "VDIFHeader3"],
    [key |-> I(4), cls |-> "VDIFHeader4"],
    [key |-> I(171), cls |-> "VDIFMark5BHeader"] >>

\* vdif_header_classes.get(edv, VDIFBaseHeader): a dict finds the entry
\* whose key equals edv under ==.
ClassFor(edv) ==
    IF \E i \in 1..Len(vdif_header_classes) :
           PyEq(vdif_header_classes[i].key, edv)
    THEN vdif_header_classes[
             CHOOSE i \in 1..Len(vdif_header_classes) :
                 PyEq(vdif_header_classes[i].key, edv)].cls
    ELSE "VDIFBaseHeader"

\* is_legacy_header and get_header_edv: parsers of VDIFBaseHeader.
is_legacy_header(words) ==
    ParseField(VDIFBaseHeader_parser, "legacy_mode", words)
get_header_edv(words) ==
    ParseField(VDIFBaseHeader_parser, "edv", words)


(***************************************************************************)
(* vdif/header.py: reference epochs.  A time is counted in elapsed seconds *)
(* since ref_epochs[0] = 2000-01-01 UTC; the difference of two UTC epochs  *)
(* includes the leap seconds inserted between them.                        *)
(***************************************************************************)
\* int(2. * (Time.now().jyear - 2000.)) + 1, evaluated in November 2026.
ref_max == 54
MJD2000 == 51544
\* The Modified Julian Day of ref_epochs[ref]: 1 January (ref even) or
\* 1 July (ref odd) of the year 2000 + ref // 2.
RefEpochMJD(ref) ==
    LET n == ref \div 2
        jan1 == MJD2000 + 365 * n + ((n + 3) \div 4)
    IN  IF ref % 2 = 0 THEN jan1
        ELSE jan1 + 181 + (IF n % 4 = 0 THEN 1 ELSE 0)
\* The reference epochs that directly follow a leap second (2006-01-01,
\* 2009-01-01, 2012-07-01, 2015-07-01, 2017-01-01).
LeapEpochs == {12, 18, 25, 31, 34}
\* ref_epochs[ref] - ref_epochs[0], in seconds.
RefEpochSec(ref) ==
    (RefEpochMJD(ref) - MJD2000) * 86400
        + Cardinality({l \in LeapEpochs : l <= ref})

(***************************************************************************)
(* vlbi_helpers.py: bcd_decode, on a number below 2^31.  The result is -1  *)
(* where the source raises ValueError (a digit above 9).                   *)
(***************************************************************************)
RECURSIVE bcd_decode(_)
bcd_decode(bcd) ==
    IF bcd = 0 THEN 0
    ELSE LET digit == bcd % 16
             rest == bcd_decode(bcd \div 16)
         IN  IF digit > 9 \/ rest = -1 THEN -1 ELSE digit + 10 * rest

(***************************************************************************)
(* vdif/header.py: header objects.  A header is its class, its edv         *)
(* attribute and its word vector; init = FALSE is an object whose __init__ *)
(* never ran (it has no attribute `words`).                                *)
(***************************************************************************)
\* An argument that the caller did not pass.
Absent == [k |-> "absent", b |-> {}]
\* The words argument: None, or a word vector.
NoWords == [none |-> TRUE, w |-> <<>>]
Words(w) == [none |-> FALSE, w |-> w]
Zeros(n) == [i \in 1..n |-> {}]
\* The object that __new__ makes: of the class, with the class's
\* _header_parser and the edv attribute, and no words yet.
Object(cls, edv) ==
    [cls |-> cls, parser |-> ParserFor(cls), edv |-> edv, words |-> <<>>,
     init |-> FALSE]

\* VLBIHeaderBase.__getitem__: IndexError where the word vector is too
\* short for the field, KeyError where the table has no such field.
GetItem(h, item) ==
    IF item \notin DOMAIN h.parser.parsers THEN Raise("KeyError")
    ELSE IF h.parser.parsers[item].word + 1 > Len(h.words)
    THEN Raise("IndexError")
    ELSE Ok(ParseField(h.parser, item, h.words))
\* self[item], where the caller has made sure that it exists.
Field(h, item) == ParseField(h.parser, item, h.words)
\* The field as a number (fields below 31 bits).
FieldNum(h, item) == Num(Field(h, item).b)

\* VDIFHeader.bps
bps(h) ==
    (FieldNum(h, "bits_per_sample") + 1)
        * (IF Truthy(Field(h, "complex_data")) THEN 2 ELSE 1)

\* The two times that VDIFMark5BHeader.verify compares,
\* VDIFHeader.get_time(self) and Mark5BHeader.get_time(self), on a header
\* of 8 words.  Mark5BHeader.get_time is not part of the sources at hand:
\* it decodes the BCD fields to the day (modulo 1000), the second of the
\* day and the fraction in units of 0.1 ms.  The class has no frame rate,
\* so a frame_nr other than 0 raises ValueError; a ref_epoch beyond the
\* table raises IndexError.
Mark5BTimeCheck(h) ==
    LET ref == FieldNum(h, "ref_epoch")
        seconds == FieldNum(h, "seconds")
        jday == bcd_decode(FieldNum(h, "bcd_jday"))
        sec == bcd_decode(FieldNum(h, "bcd_seconds"))
        frac == bcd_decode(FieldNum(h, "bcd_fraction"))
    IN  IF FieldNum(h, "frame_nr") # 0 THEN "ValueError"
        ELSE IF ref >= ref_max THEN "IndexError"
        ELSE IF jday = -1 \/ sec = -1 \/ frac = -1 THEN "ValueError"
        ELSE IF /\ (RefEpochMJD(ref) + seconds \div 86400) % 1000 = jday
                /\ seconds % 86400 = sec
                /\ frac = 0
        THEN "none" ELSE "AssertionError"

\* VDIFLegacyHeader.verify
VerifyLegacy(h) ==
    IF h.edv # PyFalse THEN "AssertionError"
    ELSE IF Len(h.words) < 1 THEN "IndexError"
    ELSE IF ~Truthy(Field(h, "legacy_mode")) THEN "AssertionError"
    ELSE IF Len(h.words) # 4 THEN "AssertionError"
    ELSE "none"

\* VDIFBaseHeader.verify
VerifyBase(h) ==
    IF Len(h.words) < 1 THEN "IndexError"
    ELSE IF Truthy(Field(h, "legacy_mode")) THEN "AssertionError"
    ELSE IF Len(h.words) < 5 THEN "IndexError"
    ELSE IF ~PyEq(h.edv, Field(h, "edv")) THEN "AssertionError"
    ELSE IF Len(h.words) # 8 THEN "AssertionError"
    ELSE IF "sync_pattern" \in Keys(h.parser.items)
            /\ ~PyEq(Field(h, "sync_pattern"),
                     DefaultOf(h.parser, "sync_pattern"))
    THEN "AssertionError"
    ELSE "none"

\* A verify of VDIFHeader3 that leaves out the check of the frame length.
VerifyNoLength(h) ==
    IF ~h.init THEN "AttributeError"
    ELSE IF h.cls = "VDIFLegacyHeader" THEN VerifyLegacy(h)
    ELSE IF VerifyBase(h) # "none" THEN VerifyBase(h)
    ELSE IF h.cls = "VDIFHeader2"
    THEN IF /\ FieldNum(h, "frame_length") \in {629, 1004}
            /\ bps(h) = 2 /\ ~Truthy(Field(h, "complex_data"))
         THEN "none" ELSE "AssertionError"
    ELSE IF h.cls = "VDIFMark5BHeader"
    THEN IF FieldNum(h, "frame_length") # 1254 THEN "AssertionError"
         ELSE Mark5BTimeCheck(h)
    ELSE "none"

\* self.verify(): "none", or the exception raised.  The classes without a
\* verify of their own inherit VDIFBaseHeader.verify.
Verify(h) ==
    IF ~h.init THEN "AttributeError"
    ELSE IF h.cls = "VDIFLegacyHeader" THEN VerifyLegacy(h)
    ELSE IF VerifyBase(h) # "none" THEN VerifyBase(h)
    ELSE IF h.cls = "VDIFHeader3"
    THEN IF FieldNum(h, "frame_length") = 629 THEN "none"
         ELSE "AssertionError"
    ELSE IF h.cls = "VDIFHeader2"
    THEN IF /\ FieldNum(h, "frame_length") \in {629, 1004}
            /\ bps(h) = 2 /\ ~Truthy(Field(h, "complex_data"))
         THEN "none" ELSE "AssertionError"
    ELSE IF h.cls = "VDIFMark5BHeader"
    THEN IF FieldNum(h, "frame_length") # 1254 THEN "AssertionError"
         ELSE Mark5BTimeCheck(h)
    ELSE "none"

\* VDIFHeader.__new__(cls, words, edv): the edv is the one given, or is
\* found from the words; the class is chosen from it, whatever cls is.
NewEdv(wa, edvArg) ==
    LET edv0 == IF edvArg = Absent THEN None ELSE edvArg
    IN  IF edv0 # None THEN Ok(edv0)
        ELSE IF wa.none THEN Raise("TypeError")
        ELSE IF Len(wa.w) < 1 THEN Raise("IndexError")
        ELSE IF Truthy(is_legacy_header(wa.w)) THEN Ok(PyFalse)
        ELSE IF Len(wa.w) < 5 THEN Raise("IndexError")
        ELSE Ok(get_header_edv(wa.w))
NewObject(e) ==
    IF e.err # "none" THEN e ELSE Ok(Object(ClassFor(e.val), e.val))
VDIFHeader_new(wa, edvArg) == NewObject(NewEdv(wa, edvArg))

\* VDIFLegacyHeader.__init__(self, words=None, edv=False, verify=True) and
\* VDIFBaseHeader.__init__(self, words=None, edv=None, verify=True), up to
\* the call of verify.  self.edv was set by __new__.
InitLegacy(self, wa, edvArg) ==
    LET edv == IF edvArg = Absent THEN PyFalse ELSE edvArg
    IN  [self EXCEPT !.edv = IF self.edv # None THEN edv ELSE self.edv,
                     !.words = IF wa.none THEN Zeros(4) ELSE wa.w,
                     !.init = TRUE]
InitBase(self, wa, edvArg) ==
    LET edv == IF edvArg = Absent THEN None ELSE edvArg
    IN  [self EXCEPT !.edv = IF edv # None THEN edv ELSE self.edv,
                     !.words = IF wa.none THEN Zeros(8) ELSE wa.w,
                     !.init = TRUE]

\* The header, or the exception e that its verify raised.
Checked(h, e) == IF e # "none" THEN Raise(e) ELSE Ok(h)
\* The end of __init__: if verify: self.verify()
InitVerify(h, verify) == IF verify THEN Checked(h, Verify(h)) ELSE Ok(h)
\* type.__call__ on the result n of __new__: __init__ runs only if the
\* object is an instance of cls.
CallInit(cls, n, wa, edvArg, verify) ==
    IF n.err # "none" THEN n
    ELSE IF ~IsSubclass(n.val.cls, cls) THEN n
    ELSE InitVerify(IF n.val.cls = "VDIFLegacyHeader"
                    THEN InitLegacy(n.val, wa, edvArg)
                    ELSE InitBase(n.val, wa, edvArg), verify)
\* cls(words, edv, verify=verify)
Call(cls, wa, edvArg, verify) ==
    CallInit(cls, VDIFHeader_new(wa, edvArg), wa, edvArg, verify)

\* VLBIHeaderBase.frombytes: cls(cls._struct.unpack(s))
frombytes(cls, s) ==
    IF ~HasStruct(cls) THEN Raise("AttributeError")
    ELSE IF ~StructUnpackable(StructSize(cls), s) THEN Raise("struct.error")
    ELSE Call(cls, Words(StructUnpack(StructSize(cls), s)), Absent, TRUE)

\* VLBIHeaderBase.tobytes: self._struct.pack(*self.words)
tobytes(h) ==
    IF ~h.init THEN Raise("AttributeError")
    ELSE IF ~StructPackable(StructSize(h.cls), h.words)
    THEN Raise("struct.error")
    ELSE Ok(StructPack(StructSize(h.cls), h.words))


\* self.words = r, for the result r of a setter
StoreWords(h, r) ==
    IF r.err # "none" THEN r ELSE Ok([h EXCEPT !.words = r.val])
\* VLBIHeaderBase.__setitem__: self.words = setters[item](self.words, value)
SetItem(h, item, value) ==
    IF item \notin Keys(h.parser.items) THEN Raise("KeyError")
    ELSE IF ~h.init THEN Raise("AttributeError")
    ELSE StoreWords(h, SetField(h.parser, item, h.words, value))

\* dict(**h): the mapping from every key of the header to h[key];
\* requires that every field lies within the word vector.
Readable(h) ==
    /\ h.init
    /\ \A key \in Keys(h.parser.items) : GetItem(h, key).err = "none"
Mapping(h) == [key \in Keys(h.parser.items) |-> Field(h, key)]

RECURSIVE SetValues(_, _, _), SetValuesNext(_, _, _)
\* The first loop of VLBIHeaderBase.fromvalues over the keys `items` that
\* are left: the keyword argument if there is one, else the default if
\* there is one.
SetValues(h, items, kwargs) ==
    IF items = <<>> THEN Ok(h)
    ELSE LET key == Head(items).name
         IN  SetValuesNext(
                 IF key \in DOMAIN kwargs THEN SetItem(h, key, kwargs[key])
                 ELSE IF Head(items).def.dflt # None
                 THEN SetItem(h, key, Head(items).def.dflt)
                 ELSE Ok(h),
                 Tail(items), kwargs)
SetValuesNext(r, items, kwargs) ==
    IF r.err # "none" THEN r ELSE SetValues(r.val, items, kwargs)

RECURSIVE SetKeys(_, _, _), SetKeysNext(_, _, _)
\* The loop of VLBIHeaderBase.fromkeys: kwargs.pop(key) raises KeyError.
SetKeys(h, items, kwargs) ==
    IF items = <<>> THEN Ok(h)
    ELSE LET key == Head(items).name
         IN  IF key \notin DOMAIN kwargs THEN Raise("KeyError")
             ELSE IF ~h.init THEN Raise("AttributeError")
             ELSE SetKeysNext(
                      StoreWords(h, SetField(h.parser, key, h.words,
                                             kwargs[key])),
                      Tail(items), kwargs)
SetKeysNext(r, items, kwargs) ==
    IF r.err # "none" THEN r ELSE SetKeys(r.val, items, kwargs)

\* The end of fromvalues and fromkeys: self.verify(); return self
VerifyResult(r) ==
    IF r.err # "none" THEN r ELSE Checked(r.val, Verify(r.val))
\* VLBIHeaderBase.fromkeys on the empty header `new`.
FromKeysOf(new, kwargs) ==
    IF new.err # "none" THEN new
    ELSE VerifyResult(SetKeys(new.val, new.val.parser.items, kwargs))

\* VDIFHeader.fromkeys(**kwargs) on top of VLBIHeaderBase.fromkeys.
fromkeys(cls, kwargs) ==
    IF "legacy_mode" \notin DOMAIN kwargs THEN Raise("KeyError")
    ELSE IF ~Truthy(kwargs["legacy_mode"]) /\ "edv" \notin DOMAIN kwargs
    THEN Raise("KeyError")
    ELSE FromKeysOf(Call(cls, NoWords,
                         IF Truthy(kwargs["legacy_mode"]) THEN PyFalse
                         ELSE kwargs["edv"], FALSE),
                    kwargs)

(***************************************************************************)
(* vdif/header.py: the properties behind the frame rate, and set_time.     *)
(* A time is [sec, ns]: whole seconds elapsed since ref_epochs[0] and      *)
(* nanoseconds within the second.  A frame rate is a whole number of Hz.   *)
(***************************************************************************)
NsPerSec == 1000000000

\* time > ref_epochs[k] and time >= ref_epochs[k]
TimeAfter(time, k) ==
    time.sec > RefEpochSec(k) \/ (time.sec = RefEpochSec(k) /\ time.ns > 0)
TimeAtOrAfter(time, k) == time.sec >= RefEpochSec(k)

\* VDIFHeader.framesize, payloadsize, nchan, samples_per_frame
framesize(h) == FieldNum(h, "frame_length") * 8
payloadsize(h) == framesize(h) - StructSize(h.cls)
nchan(h) == 2 ^ FieldNum(h, "lg2_nchan")
SamplesOfBits(h) == ((payloadsize(h) * 8) \div bps(h)) \div nchan(h)
samples_per_frame(h) ==
    (((payloadsize(h) \div 4) * (32 \div bps(h))) \div nchan(h))

\* self.framerate, in Hz: only VDIFSampleRateHeader has the property, and a
\* frame without samples divides by zero.  The quotient is taken whole
\* (the headers at hand have a whole number of frames per second).
framerate(h) ==
    IF h.cls \notin SampleRateClasses THEN Raise("AttributeError")
    ELSE IF samples_per_frame(h) = 0 THEN Raise("ZeroDivisionError")
    ELSE Ok((FieldNum(h, "sample_rate")
                 * (IF Truthy(Field(h, "sampling_unit")) THEN 1000000
                    ELSE 1000)
                 * 2 * nchan(h)) \div samples_per_frame(h))

\* A conversion that drops the fraction of a frame instead of rounding.
RoundFramesDown(ns, rate) ==
    ((ns \div 1000) * rate + (((ns % 1000) * rate) \div 1000)) \div 1000000

\* round((frac_sec * framerate).to(u.one).value) for ns nanoseconds and
\* rate Hz: the product is split so that it stays below 2^31; a half is
\* rounded away from zero (round of Python 2).
RoundFrames(ns, rate) ==
    LET hi == ns \div 1000
        lo == ns % 1000
        p == hi * rate + ((lo * rate) \div 1000)
        rem == (p % 1000000) * 1000 + ((lo * rate) % 1000)
    IN  (p \div 1000000) + (IF rem >= NsPerSec \div 2 THEN 1 ELSE 0)

\* The result of a method that changes the header in place: the exception
\* raised ("none" without) and the header as the method leaves it.
Left(e, h) == [err |-> e, hdr |-> h]

\* np.searchsorted((ref_epochs - time).sec, 0) - 1: the number of epochs
\* before the time, less one.
RefIndex(time) ==
    Cardinality({k \in 0..(ref_max - 1) : TimeAfter(time, k)}) - 1
\* self[item] = value in a method that goes on: the exception and the
\* header as the statement leaves it.
AssignResult(h, r) == Left(r.err, IF r.err = "none" THEN r.val ELSE h)
Assign(h, item, value) == AssignResult(h, SetItem(h, item, value))

\* VDIFHeader.set_time(self, time, framerate) with framerate None or a
\* whole number of Hz, from its last statement to its first.
\* self['frame_nr'] = round(...), for the result fr of the frame rate
SetTimeRate(h, time, fr) ==
    IF fr.err = "AttributeError" THEN Left("ValueError", h)
    ELSE IF fr.err # "none" THEN Left(fr.err, h)
    ELSE Assign(h, "frame_nr", I(RoundFrames(time.ns, fr.val)))
\* A set_time that asks for the frame rate whatever the fraction is.
SetTimeFrameAlways(l, time, rate) ==
    IF l.err # "none" THEN l
    ELSE SetTimeRate(l.hdr, time,
                     IF rate = None THEN framerate(l.hdr)
                     ELSE Ok(Num(rate.b)))
\* self['frame_nr'], from the frame rate given or the header's
SetTimeFrame(l, time, rate) ==
    IF l.err # "none" THEN l
    ELSE IF time.ns < 2 THEN Assign(l.hdr, "frame_nr", I(0))
    ELSE SetTimeRate(l.hdr, time,
                     IF rate = None THEN framerate(l.hdr)
                     ELSE Ok(Num(rate.b)))
\* self['seconds'] = int_sec
SetTimeSeconds(l, time, rate, int_sec) ==
    IF l.err # "none" THEN l
    ELSE SetTimeFrame(Assign(l.hdr, "seconds", I(int_sec)), time, rate)
\* self['ref_epoch'] = ref_index
SetTimeEpoch(h, time, rate, ref_index) ==
    SetTimeSeconds(Assign(h, "ref_epoch", I(ref_index)), time, rate,
                   time.sec - RefEpochSec(ref_index))
\* the assert and the search of the epoch
set_time(h, time, rate) ==
    IF ~TimeAfter(time, 0) THEN Left("AssertionError", h)
    ELSE SetTimeEpoch(h, time, rate, RefIndex(time))

\* VDIFHeader.get_time(self, framerate, frame_nr) with framerate None or a
\* whole number of Hz and frame_nr None or an int.  The time returned is
\* [sec, frames, rate]: sec whole seconds after ref_epochs[0] and an
\* offset of frames / rate seconds (rate = 0 with frames # 0: a division
\* of floats by zero, a time that is not finite).
\* ref_epochs[self['ref_epoch']] + TimeDelta(self['seconds'], offset)
GetTimeSum(h, frames, fr) ==
    IF fr.err = "AttributeError" THEN Raise("ValueError")
    ELSE IF fr.err # "none" THEN fr
    ELSE IF FieldNum(h, "ref_epoch") >= ref_max THEN Raise("IndexError")
    ELSE Ok([sec |-> RefEpochSec(FieldNum(h, "ref_epoch"))
                        + FieldNum(h, "seconds"),
             frames |-> frames, rate |-> fr.val])
\* the offset, from the frame rate given or the header's
GetTimeOffset(h, rate, frames) ==
    GetTimeSum(h, frames,
               IF frames = 0 THEN Ok(1)
               ELSE IF rate = None THEN framerate(h)
               ELSE Ok(Num(rate.b)))
get_time(h, rate, frame_nr) ==
    GetTimeOffset(h, rate, IF frame_nr = None THEN FieldNum(h, "frame_nr")
                           ELSE Num(frame_nr.b))

\* VDIFHeader.fromfile(fh, edv, verify), from its last statement to its
\* first: the exception, the header, and the position afterwards.
\* if verify: self.verify()
FromFileVerify(self, at, verify) ==
    IF verify /\ Verify(self) # "none"
    THEN [err |-> Verify(self), hdr |-> <<>>, pos |-> at]
    ELSE [err |-> "none", hdr |-> self, pos |-> at]
\* if self.edv is False: fh.seek(-16, 1); self.words = self.words[:4]
FromFileHeader(r, at, verify) ==
    IF r.err # "none" THEN [err |-> r.err, hdr |-> <<>>, pos |-> at]
    ELSE IF r.val.edv # PyFalse THEN FromFileVerify(r.val, at, verify)
    ELSE IF ~r.val.init
    THEN [err |-> "AttributeError", hdr |-> <<>>, pos |-> at - 16]
    ELSE FromFileVerify([r.val EXCEPT !.words = SubSeq(@, 1, 4)], at - 16,
                        verify)
\* s = fh.read(32) on the bytes `data` from position `pos`, and the call
\* of the class
fromfile(data, pos, edv, verify) ==
    IF Len(data) - pos < 32
    THEN [err |-> "EOFError", hdr |-> <<>>, pos |-> Len(data)]
    ELSE FromFileHeader(
             Call("VDIFHeader",
                  Words(StructUnpack(32, SubSeq(data, pos + 1, pos + 32))),
                  edv, FALSE),
             pos + 32, verify)

(***************************************************************************)
(* vdif/header.py: the setters of the properties, and fromvalues.  Sizes   *)
(* and counts are whole numbers; a bandwidth is [unit, val], val whole in  *)
(* "Hz", "kHz" or "MHz"; a station is an int or a string of character      *)
(* codes.                                                                  *)
(***************************************************************************)
\* The Python int n.
PyNum(n) == IF n >= 0 THEN I(n) ELSE PyNeg(Bits(-n - 1))

\* VDIFHeader._properties and VDIFSampleRateHeader._properties
VDIFHeader_properties ==
    <<"framesize", "payloadsize", "bps", "nchan", "samples_per_frame",
      "station", "time">>
VDIFSampleRateHeader_properties ==
    VDIFHeader_properties \o <<"bandwidth", "framerate">>
PropertiesOf(cls) ==
    IF cls \in SampleRateClasses THEN VDIFSampleRateHeader_properties
    ELSE VDIFHeader_properties

\* framesize.setter
framesize_setter(h, size) ==
    IF size % 8 # 0 THEN Left("AssertionError", h)
    ELSE Assign(h, "frame_length", PyNum(size \div 8))
\* payloadsize.setter
payloadsize_setter(h, size) == framesize_setter(h, size + StructSize(h.cls))
\* bps.setter: bps /= 2 is a true division
bps_setter(h, b) ==
    IF Truthy(Field(h, "complex_data"))
    THEN IF b % 2 # 0 THEN Left("AssertionError", h)
         ELSE Assign(h, "bits_per_sample", PyNum((b \div 2) - 1))
    ELSE Assign(h, "bits_per_sample", PyNum(b - 1))
\* nchan.setter: np.log2(nchan) is whole for the powers of two only
nchan_setter(h, n) ==
    IF \E k \in 0..30 : 2 ^ k = n
    THEN Assign(h, "lg2_nchan", I(CHOOSE k \in 0..30 : 2 ^ k = n))
    ELSE Left("AssertionError", h)
\* samples_per_frame.setter
samples_per_frame_setter(h, spf) ==
    LET values_per_long == (32 \div bps(h)) * 2
    IN  IF values_per_long = 0 THEN Left("ZeroDivisionError", h)
        ELSE LET total == spf * nchan(h)
                 longs == (total \div values_per_long)
                              + (IF total % values_per_long # 0 THEN 1 ELSE 0)
             IN  Assign(h, "frame_length",
                        PyNum(longs + (StructSize(h.cls) \div 8)))
\* station.setter
IntStation(n) == [str |-> FALSE, n |-> n, s |-> <<>>]
StrStation(s) == [str |-> TRUE, n |-> 0, s |-> s]
station_setter(h, station) ==
    IF ~station.str THEN Assign(h, "station_id", PyNum(station.n))
    ELSE IF Len(station.s) < 2 THEN Left("IndexError", h)
    ELSE Assign(h, "station_id",
                PyInt(Shl(Bits(station.s[1]), 8) \cup Bits(station.s[2])))
\* bandwidth.setter, from its last statement to its first
HzOf(bandwidth) ==
    bandwidth.val * (CASE bandwidth.unit = "Hz" -> 1
                       [] bandwidth.unit = "kHz" -> 1000
                       [] bandwidth.unit = "MHz" -> 1000000)
BandwidthRate(l, hz) ==
    IF l.err # "none" THEN l
    ELSE IF Truthy(Field(l.hdr, "sampling_unit"))
    THEN Assign(l.hdr, "sample_rate", PyNum(hz \div 1000000))
    ELSE IF hz % 1000 # 0 THEN Left("AssertionError", l.hdr)
    ELSE Assign(l.hdr, "sample_rate", PyNum(hz \div 1000))
bandwidth_setter(h, bandwidth) ==
    BandwidthRate(
        Assign(h, "sampling_unit",
               PyBool(~(bandwidth.unit = "kHz"
                        \/ HzOf(bandwidth) % 1000000 # 0))),
        HzOf(bandwidth))
\* framerate.setter, for a whole number of Hz: the bandwidth
\* framerate * samples_per_frame / (2 * nchan) is a whole number of Hz, or
\* else no whole number of kHz either (the assert fails as it does for
\* 1 Hz).
framerate_setter(h, rate) ==
    IF (rate * samples_per_frame(h)) % (2 * nchan(h)) # 0
    THEN BandwidthRate(Assign(h, "sampling_unit", PyFalse), 1)
    ELSE bandwidth_setter(h, [unit |-> "Hz",
                              val |-> (rate * samples_per_frame(h))
                                          \div (2 * nchan(h))])

\* setattr(self, key, value)
SetProperty(h, key, value) ==
    CASE key = "framesize" -> framesize_setter(h, value)
      [] key = "payloadsize" -> payloadsize_setter(h, value)
      [] key = "bps" -> bps_setter(h, value)
      [] key = "nchan" -> nchan_setter(h, value)
      [] key = "samples_per_frame" -> samples_per_frame_setter(h, value)
      [] key = "station" -> station_setter(h, value)
      [] key = "time" -> set_time(h, value, None)
      [] key = "bandwidth" -> bandwidth_setter(h, value)
      [] key = "framerate" -> framerate_setter(h, value)

RECURSIVE SetProperties(_, _, _)
\* The second loop of VLBIHeaderBase.fromvalues over the properties `props`
\* that are left: the setter of each one that is among the keywords.
SetProperties(l, props, kwargs) ==
    IF l.err # "none" \/ props = <<>> THEN l
    ELSE SetProperties(IF Head(props) \in DOMAIN kwargs
                       THEN SetProperty(l.hdr, Head(props),
                                        kwargs[Head(props)])
                       ELSE l,
                       Tail(props), kwargs)
\* The two loops, on the result r of the first
PropertiesResult(r, kwargs) ==
    IF r.err # "none" THEN r
    ELSE LET l == SetProperties(Left("none", r.val), PropertiesOf(r.val.cls),
                                kwargs)
         IN  IF l.err # "none" THEN Raise(l.err) ELSE Ok(l.hdr)
\* VLBIHeaderBase.fromvalues on the empty header `new`.
FromValuesOf(new, kw) ==
    IF new.err # "none" THEN new
    ELSE VerifyResult(PropertiesResult(
             SetValues(new.val, new.val.parser.items, kw), kw))

\* VDIFHeader.fromvalues(edv=False, **kwargs) on top of
\* VLBIHeaderBase.fromvalues: an 'edv' among the keywords is the parameter.
fromvalues(cls, kwargs) ==
    LET edv == IF "edv" \in DOMAIN kwargs THEN kwargs["edv"] ELSE PyFalse
        rest == [key \in DOMAIN kwargs \ {"edv"} |-> kwargs[key]]
        legacy == IF "legacy_mode" \in DOMAIN rest THEN rest["legacy_mode"]
                  ELSE PyBool(edv = PyFalse)
        kw == [key \in DOMAIN rest \cup {"legacy_mode", "edv"} |->
                  IF key = "edv" THEN edv
                  ELSE IF key = "legacy_mode" THEN legacy
                  ELSE rest[key]]
    IN  FromValuesOf(Call(cls, NoWords, edv, FALSE), kw)

(***************************************************************************)
(* mark4/payload.py: the codec of 8 channels, 2 bits, fan-out 4.  A        *)
(* payload word is a set of bit positions 0..63; an array is a sequence of *)
(* samples, each a sequence of 8 levels; the levels -H, -1, +1, +H (H =    *)
(* OPTIMAL_2BIT_HIGH) are written -3, -1, 1, 3.  `order` is sys.byteorder, *)
(* which picks reorder64 and the bytes that view(np.uint8) gives.          *)
(***************************************************************************)
\* The 64-bit mask that repeats the 16-bit pattern.
Mask64(pattern) == {i \in 0..63 : (pattern \div (2 ^ (i % 16))) % 2 = 1}
\* A variant with the masks and shifts of the other byte order.
reorder64Other(order, x) ==
    IF order = "little"
    THEN (x \cap Mask64(21930)) \cup Shr(x \cap Mask64(43520), 9)
             \cup Shl(x \cap Mask64(85), 9)
    ELSE (x \cap Mask64(43605)) \cup Shr(x \cap Mask64(21760), 7)
             \cup Shl(x \cap Mask64(170), 7)
\* reorder64: 0xAA55.., 0x5500.., 0x00AA.. on a little-endian host,
\* 0x55AA.., 0xAA00.., 0x0055.. on a big-endian one.
reorder64(order, x) ==
    IF order = "big"
    THEN (x \cap Mask64(21930)) \cup Shr(x \cap Mask64(43520), 9)
             \cup Shl(x \cap Mask64(85), 9)
    ELSE (x \cap Mask64(43605)) \cup Shr(x \cap Mask64(21760), 7)
             \cup Shl(x \cap Mask64(170), 7)
\* x.view(np.uint8)[j] of one word, and the word that views as the bytes.
ByteShift(order, j) == IF order = "big" THEN 8 * (7 - j) ELSE 8 * j
ViewByte(order, x, j) == Shr(x, ByteShift(order, j)) \cap Ones(8)
ViewWord(order, bytes) ==
    UNION {Shl(bytes[j + 1], ByteShift(order, j)) : j \in 0..7}

\* init_luts: lut4level, and lut2bit1[b][i] for the byte b
lut4level == <<-3, 1, -1, 3>>
BitAt(b, i) == IF i \in b THEN 1 ELSE 0
lut2bit1(b, i) == lut4level[BitAt(b, 2 * i) + BitAt(b, 2 * i + 1) * 2 + 1]

\* The channel order of decode (frame.take) and of encode (reorder_channels)
ChannelOrderRotated == <<1, 2, 0, 3, 4, 6, 5, 7>>
ChannelOrder == <<0, 2, 1, 3, 4, 6, 5, 7>>

\* decode_8chan_2bit_fanout4(frame) without `out`: sample 4i + k of
\* channel c is lut2bit1[byte ChannelOrder[c] of the reordered word i][k].
decode_8chan_2bit_fanout4(order, frame) ==
    [s \in 1..(4 * Len(frame)) |->
        [c \in 1..8 |->
            lut2bit1(ViewByte(order,
                              reorder64(order, frame[((s - 1) \div 4) + 1]),
                              ChannelOrder[c]),
                     (s - 1) % 4)]]

\* encode_2bit_real_base, which is not part of the sources at hand: the
\* value is quantized to the nearest level, and the levels are numbered
\* 0..3 from the lowest to the highest.
encode_2bit_real_base(value) ==
    CASE value = -3 -> 0
      [] value = -1 -> 1
      [] value = 1 -> 2
      [] value = 3 -> 3
\* reorder_bits of encode
reorder_bits == <<0, 2, 1, 3>>
\* One byte of encode: np.bitwise_or.reduce over the four samples
\* 4i + k of channel ChannelOrder[c], each shifted by 2k.
EncodeByte(values, i, c) ==
    UNION {Shl(Bits(reorder_bits[
                   encode_2bit_real_base(
                       values[4 * i + k + 1][ChannelOrder[c + 1] + 1]) + 1]),
               2 * k) : k \in 0..3}
\* encode_8chan_2bit_fanout4(values): reshape(-1, 4, 8) fails unless the
\* number of samples is a multiple of 4.
encode_8chan_2bit_fanout4(order, values) ==
    IF Len(values) % 4 # 0 THEN Raise("ValueError")
    ELSE Ok([i \in 1..(Len(values) \div 4) |->
                reorder64(order,
                          ViewWord(order,
                                   [c \in 1..8 |->
                                       EncodeByte(values, i - 1, c - 1)]))])

(***************************************************************************)
(* vdif/frame.py: VDIFFrameSet.  A stream is a sequence of bytes and a      *)
(* reader a position in it.  An object keeps its identity: a header is     *)
(* held as [hdr, id], where id tells the objects apart (for a header read  *)
(* from a stream, the position it was read at).  thread_ids is             *)
(* [none, ids]: None, or a list of ints.                                   *)
(***************************************************************************)
Ref(header, id) == [hdr |-> header, id |-> id]
NoIds == [none |-> TRUE, ids |-> <<>>]
Ids(ids) == [none |-> FALSE, ids |-> ids]

\* VDIFFrame(header, payload, verify): a frame holds the header and the
\* payload it is given (VLBIFrameBase.__init__, not among the sources; its
\* verify compares the header with a payload that was made from it).  The
\* payload is held by the place of its bytes in the stream.
VDIFFrame(header, payload) == [header |-> header, payload |-> payload]
\* VDIFPayload.fromfile(fh, header=header) is not among the sources
\* either: it reads header.payloadsize bytes, and EOFError is raised if
\* the stream has fewer.
PayloadReadable(data, pos, header) == Len(data) - pos >= payloadsize(header)
PayloadFromFile(pos, header) == [at |-> pos, size |-> payloadsize(header)]

\* How the loop of fromfile ends: with an exception that leaves fromfile,
\* or with the name exc bound (EOF at a header) or not, the reader at pos.
LoopEnd(err, exc, pos, frames) ==
    [err |-> err, exc |-> exc, pos |-> pos, frames |-> frames]

\* header['thread_id'] in thread_ids
InThreadIds(header, ids) ==
    \E i \in 1..Len(ids) : I(ids[i]) = Field(header, "thread_id")

RECURSIVE ReadFrames(_, _, _, _, _)
\* try: header = VDIFHeader.fromfile(fh, edv, verify)
\* except EOFError as exc: fh.seek(0, 2); break
NextHeaderOf(c, r, at, frames) ==
    IF r.err = "EOFError" THEN LoopEnd("none", TRUE, Len(c.data), frames)
    ELSE IF r.err # "none" THEN LoopEnd(r.err, FALSE, r.pos, frames)
    ELSE ReadFrames(c, r.hdr, at, r.pos, frames)
NextHeader(c, pos, frames) ==
    NextHeaderOf(c, fromfile(c.data, pos, c.edv, c.verify), pos, frames)
\* while header['frame_nr'] == header0['frame_nr']: keep the frame or
\* skip its payload, and read the next header;
\* else: fh.seek(-header.size, 1).
\* The header was read at `at`, the reader is at pos, and c holds what
\* does not change: the stream, header0['frame_nr'], thread_ids, edv and
\* verify.
ReadFrames(c, header, at, pos, frames) ==
    IF Field(header, "frame_nr") # c.frame_nr
    THEN LoopEnd("none", FALSE, pos - StructSize(header.cls), frames)
    ELSE IF c.thread_ids.none \/ InThreadIds(header, c.thread_ids.ids)
    THEN IF ~PayloadReadable(c.data, pos, header)
         THEN LoopEnd("EOFError", FALSE, Len(c.data), frames)
         ELSE NextHeader(c, pos + payloadsize(header),
                         Append(frames,
                                VDIFFrame(Ref(header, at),
                                          PayloadFromFile(pos, header))))
    ELSE NextHeader(c, pos + payloadsize(header), frames)

\* frames.sort(key=lambda frame: frame['thread_id']): the sort is stable.
\* frame[item] is header[item] (VLBIFrameBase.__getitem__, not among the
\* sources).
FrameThread(frame) == FieldNum(frame.header.hdr, "thread_id")
RECURSIVE InsertFrame(_, _)
InsertFrameBefore(sorted, frame) ==
    IF sorted = <<>> THEN <<frame>>
    ELSE IF FrameThread(sorted[Len(sorted)]) < FrameThread(frame)
    THEN Append(sorted, frame)
    ELSE Append(InsertFrame(SubSeq(sorted, 1, Len(sorted) - 1), frame),
                sorted[Len(sorted)])
InsertFrame(sorted, frame) ==
    IF sorted = <<>> THEN <<frame>>
    ELSE IF FrameThread(sorted[Len(sorted)]) <= FrameThread(frame)
    THEN Append(sorted, frame)
    ELSE Append(InsertFrame(SubSeq(sorted, 1, Len(sorted) - 1), frame),
                sorted[Len(sorted)])
RECURSIVE SortFrames(_)
Unsorted(frames) == frames
SortFrames(frames) ==
    IF frames = <<>> THEN <<>>
    ELSE InsertFrame(SortFrames(SubSeq(frames, 1, Len(frames) - 1)),
                     frames[Len(frames)])

\* VDIFFrameSet.__init__(self, frames, header0=None); header0 is None or
\* [hdr, id].
VDIFFrameSet(frames, header0) ==
    IF header0 # None THEN Ok([frames |-> frames, header0 |-> header0])
    ELSE IF frames = <<>> THEN Raise("IndexError")
    ELSE Ok([frames |-> frames, header0 |-> frames[1].header])

\* if thread_ids is None: thread_ids = range(min(len(frames), 1));
\* len(thread_ids)
RequestedOne(thread_ids, frames) ==
    IF Len(frames) < 1 THEN Len(frames) ELSE 1
Requested(thread_ids, frames) ==
    IF ~thread_ids.none THEN Len(thread_ids.ids)
    ELSE IF Len(frames) < 1 THEN Len(frames) ELSE 1
\* What VDIFFrameSet.fromfile gives: the exception, the frame set, the
\* position of the reader, whether the loop came to its end, whether exc
\* is bound and the frames collected.
FileSet(err, l, set) ==
    [err |-> err, set |-> set, pos |-> l.pos, ended |-> l.err = "none",
     exc |-> l.exc, found |-> Len(l.frames)]
NoSet == [frames |-> <<>>, header0 |-> None]
\* fromfile after its loop: the exception if too few frames were found (in
\* Python 2 the name exc stays bound after the except clause, and the bare
\* raise raises the EOFError anew), the sort and the frame set.
AfterLoop(l, thread_ids, sort, header0) ==
    IF l.err # "none" THEN FileSet(l.err, l, NoSet)
    ELSE IF Len(l.frames) < Requested(thread_ids, l.frames)
    THEN FileSet(IF l.exc THEN "EOFError" ELSE "IOError", l, NoSet)
    ELSE FileSet("none", l,
                 VDIFFrameSet(IF sort THEN SortFrames(l.frames)
                              ELSE l.frames, header0).val)
\* header0 = VDIFHeader.fromfile(fh, edv, verify); edv = header0.edv; and
\* the loop, which starts at header0
FromFirstHeader(data, at, r, thread_ids, sort, verify) ==
    IF r.err # "none"
    THEN FileSet(r.err, LoopEnd(r.err, FALSE, r.pos, <<>>), NoSet)
    ELSE AfterLoop(ReadFrames([data |-> data,
                               frame_nr |-> Field(r.hdr, "frame_nr"),
                               thread_ids |-> thread_ids,
                               edv |-> r.hdr.edv, verify |-> verify],
                              r.hdr, at, r.pos, <<>>),
                   thread_ids, sort, Ref(r.hdr, at))
\* VDIFFrameSet.fromfile(fh, thread_ids, sort, edv, verify) on the bytes
\* `data` from position `pos`
frameset_fromfile(data, pos, thread_ids, sort, edv, verify) ==
    FromFirstHeader(data, pos, fromfile(data, pos, edv, verify), thread_ids,
                    sort, verify)

\* VDIFFrameSet.fromdata(data, headers, verify) for data of n threads and
\* a list of headers ([hdr, id]): a frame for each pair of zip(data,
\* headers) with the header it is given (VDIFFrame.fromdata), and
\* cls(frames).
RECURSIVE FramesOfData(_, _)
FramesOfData(k, headers) ==
    IF k = 0 THEN <<>>
    ELSE Append(FramesOfData(k - 1, headers),
                VDIFFrame(headers[k], [at |-> k - 1, size |-> 0]))
frameset_fromdata(n, headers) ==
    VDIFFrameSet(FramesOfData(IF n < Len(headers) THEN n ELSE Len(headers),
                              headers), None)
\* VDIFHeader.copy: self.__class__(self.words, self.edv, verify=False)
copy(h) ==
    IF ~h.init THEN Raise("AttributeError")
    ELSE Call(h.cls, Words(h.words), h.edv, FALSE)
\* The headers that fromdata makes of a single header, for thread_id in
\* range(n): header = header.copy(); header['thread_id'] = thread_id;
\* headers.append(header).  ThreadHeader is the header for thread_id k,
\* or the exception met on the way to it.
RECURSIVE ThreadHeader(_, _)
ThreadHeaderSet(c, k) ==
    IF c.err # "none" THEN c ELSE SetItem(c.val, "thread_id", I(k))
ThreadHeaderCopy(prev, k) ==
    IF prev.err # "none" THEN prev ELSE ThreadHeaderSet(copy(prev.val), k)
ThreadHeader(header, k) ==
    ThreadHeaderCopy(IF k = 0 THEN Ok(header)
                     ELSE ThreadHeader(header, k - 1), k)
ThreadHeaders(header, n) ==
    IF n > 0 /\ ThreadHeader(header, n - 1).err # "none"
    THEN Raise(ThreadHeader(header, n - 1).err)
    ELSE Ok([k \in 1..n |-> Ref(ThreadHeader(header, k - 1).val, k - 1)])
\* fromdata with a single header
frameset_fromheader(n, header) ==
    IF ThreadHeaders(header, n).err # "none" THEN ThreadHeaders(header, n)
    ELSE frameset_fromdata(n, ThreadHeaders(header, n).val)

(***************************************************************************)
(* vlbi_helpers.py: get_frame_rate, and what it asks of header_class.  A   *)
(* stream is the sequence of its frames, [head, pay]: the bytes of the     *)
(* header and the number of bytes (0xff) that follow it.                   *)
(***************************************************************************)
RECURSIVE StreamLen(_)
StreamLen(s) ==
    IF s = <<>> THEN 0 ELSE Len(s[1].head) + s[1].pay + StreamLen(Tail(s))
RECURSIVE ByteAt(_, _)
ByteAt(s, p) ==
    IF p < Len(s[1].head) THEN s[1].head[p + 1]
    ELSE IF p < Len(s[1].head) + s[1].pay THEN 255
    ELSE ByteAt(Tail(s), p - Len(s[1].head) - s[1].pay)
\* fh.read(n) at position pos, and all bytes of the stream
ReadBytes(s, pos, n) ==
    [i \in 1..(IF StreamLen(s) - pos < n THEN StreamLen(s) - pos ELSE n) |->
        ByteAt(s, pos + i - 1)]
StreamBytes(s) == ReadBytes(s, 0, StreamLen(s))

\* mark5b/header.py is not part of the sources at hand.  Of
\* Mark5BHeader: fromfile reads the 16 bytes of four_word_struct (EOFError
\* if there are fewer) and verifies the sync pattern; payloadsize is 10000
\* for every header (test_mark5b.py); seconds is the decoded bcd_seconds.
Mark5B_payloadsize == 10000
Mark5BHeader(words) ==
    [cls |-> "Mark5BHeader", parser |-> Mark5BHeader_parser, edv |-> None,
     words |-> words, init |-> TRUE]
Mark5BVerify(h, at) ==
    IF ~PyEq(Field(h, "sync_pattern"), PyInt(SyncMark5B))
    THEN [err |-> "AssertionError", hdr |-> <<>>, pos |-> at]
    ELSE [err |-> "none", hdr |-> h, pos |-> at]
Mark5BHeader_fromfile(s, pos) ==
    IF StreamLen(s) - pos < four_word_size
    THEN [err |-> "EOFError", hdr |-> <<>>, pos |-> StreamLen(s)]
    ELSE Mark5BVerify(
             Mark5BHeader(StructUnpack(four_word_size,
                                       ReadBytes(s, pos, four_word_size))),
             pos + four_word_size)
Mark5B_seconds(h) ==
    IF bcd_decode(FieldNum(h, "bcd_seconds")) = -1 THEN Raise("ValueError")
    ELSE Ok(bcd_decode(FieldNum(h, "bcd_seconds")))

\* header_class.fromfile(fh), with the defaults edv=None, verify=True for
\* VDIFHeader
HeaderFromFile(cls, s, pos) ==
    IF cls = "Mark5BHeader" THEN Mark5BHeader_fromfile(s, pos)
    ELSE fromfile(StreamBytes(s), pos, None, TRUE)
\* header.seconds: the classes of vdif/header.py have no such attribute,
\* other than VDIFMark5BHeader, which inherits Mark5BHeader's
HeaderSeconds(h) ==
    IF h.cls \in {"Mark5BHeader", "VDIFMark5BHeader"} THEN Mark5B_seconds(h)
    ELSE Raise("AttributeError")
\* header.payloadsize
HeaderPayloadSize(h) ==
    IF h.cls = "Mark5BHeader" THEN Mark5B_payloadsize ELSE payloadsize(h)

\* get_frame_rate, a statement at a time.  Its locals are g = [header,
\* sec0, max_frame, pos] (max_frame -1 while unbound); a step gives the
\* locals and where the function goes on (`to`), or the exception raised
\* or the value returned.
GfrLocals(header, sec0, max_frame, pos) ==
    [header |-> header, sec0 |-> sec0, max_frame |-> max_frame, pos |-> pos]
GfrGo(to, g) == [to |-> to, g |-> g, err |-> "none", val |-> 0, warn |-> FALSE]
GfrRaise(e, g) == [to |-> "done", g |-> g, err |-> e, val |-> 0, warn |-> FALSE]
GfrReturn(val, warn, g) ==
    [to |-> "done", g |-> g, err |-> "none", val |-> val, warn |-> warn]
\* lines 279-284: fh.seek(0); header = header_class.fromfile(fh);
\* assert header['frame_nr'] == 0; sec0 = header.seconds
GfrFirst(r, g) ==
    IF r.err # "none" THEN GfrRaise(r.err, [g EXCEPT !.pos = r.pos])
    ELSE IF FieldNum(r.hdr, "frame_nr") # 0
    THEN GfrRaise("AssertionError", [g EXCEPT !.pos = r.pos])
    ELSE IF HeaderSeconds(r.hdr).err # "none"
    THEN GfrRaise(HeaderSeconds(r.hdr).err, [g EXCEPT !.pos = r.pos])
    ELSE GfrGo("zeros", GfrLocals(Ref(r.hdr, 0), HeaderSeconds(r.hdr).val,
                                  -1, r.pos))
get_frame_rate_first(cls, s, g) == GfrFirst(HeaderFromFile(cls, s, 0), g)
\* fh.seek(header.payloadsize, 1); header = header_class.fromfile(fh)
GfrNext(to, r, at, g) ==
    IF r.err # "none" THEN GfrRaise(r.err, [g EXCEPT !.pos = r.pos])
    ELSE GfrGo(to, [g EXCEPT !.header = Ref(r.hdr, at), !.pos = r.pos])
GfrSkip(to, cls, s, g) ==
    GfrNext(to, HeaderFromFile(cls, s, g.pos + HeaderPayloadSize(g.header.hdr)),
            g.pos + HeaderPayloadSize(g.header.hdr), g)
\* lines 285-287: while header['frame_nr'] == 0: skip
get_frame_rate_zero(cls, s, g) == GfrSkip("zeros", cls, s, g)
\* lines 288-291: while header['frame_nr'] > 0:
\*     max_frame = header['frame_nr']; skip
get_frame_rate_scan(cls, s, g) ==
    GfrSkip("scan", cls, s,
            [g EXCEPT !.max_frame = FieldNum(g.header.hdr, "frame_nr")])
\* lines 293-296: the warning and return max_frame + 1
get_frame_rate_return(g) ==
    IF HeaderSeconds(g.header.hdr).err # "none"
    THEN GfrRaise(HeaderSeconds(g.header.hdr).err, g)
    ELSE GfrReturn(g.max_frame + 1,
                   HeaderSeconds(g.header.hdr).val # g.sec0 + 1, g)

(***************************************************************************)
(* vdif/frame.py: VDIFFrameSet.fromfile, a pass of its loop at a time.     *)
(* Its locals are f = [header0, header, frames, pos], the headers with the *)
(* place they were read at; a step gives the locals and where the method   *)
(* goes on (`to`), or what it gives in the end (`res`).                    *)
(***************************************************************************)
FsLocals(header0, header, frames, pos) ==
    [header0 |-> header0, header |-> header, frames |-> frames, pos |-> pos]
NoLocals == FsLocals(None, None, <<>>, 0)
FsGo(to, f) == [to |-> to, f |-> f, res |-> None]
FsEnd(e, pos, f) ==
    [to |-> "done", f |-> [f EXCEPT !.pos = pos],
     res |-> FileSet(e, LoopEnd(e, FALSE, pos, f.frames), NoSet)]
\* lines 110-115: header0 = VDIFHeader.fromfile(fh, edv, verify);
\* edv = header0.edv; frames = []; header = header0
FsFirst(r, at) ==
    IF r.err # "none" THEN FsEnd(r.err, r.pos, NoLocals)
    ELSE FsGo("frames", FsLocals(Ref(r.hdr, at), Ref(r.hdr, at), <<>>, r.pos))
frameset_first(data, pos, edv, verify) ==
    FsFirst(fromfile(data, pos, edv, verify), pos)
\* VDIFPayload.fromfile(fh, header=header) and the frame appended.  With a
\* negative payloadsize fh.read takes all bytes that are left; what
\* VDIFPayload (not among the sources) makes of them is either outcome:
\* ValueError (`odd`), or a payload.
FsBody(err, pos, frames) == [err |-> err, pos |-> pos, frames |-> frames]
FsPayload(data, f, odd) ==
    IF payloadsize(f.header.hdr) < 0
    THEN IF odd THEN FsBody("ValueError", Len(data), f.frames)
         ELSE FsBody("none", Len(data),
                     Append(f.frames,
                            VDIFFrame(f.header,
                                      PayloadFromFile(f.pos, f.header.hdr))))
    ELSE IF ~PayloadReadable(data, f.pos, f.header.hdr)
    THEN FsBody("EOFError", Len(data), f.frames)
    ELSE FsBody("none", f.pos + payloadsize(f.header.hdr),
                Append(f.frames,
                       VDIFFrame(f.header,
                                 PayloadFromFile(f.pos, f.header.hdr))))
\* fh.seek(header.payloadsize, 1)
FsSeek(f) == FsBody("none", f.pos + payloadsize(f.header.hdr), f.frames)
\* lines 117-122
FsKeepAll(thread_ids, header) == TRUE
FsKeep(thread_ids, header) ==
    thread_ids.none \/ InThreadIds(header, thread_ids.ids)
FsFrame(data, thread_ids, f, odd) ==
    IF FsKeep(thread_ids, f.header.hdr) THEN FsPayload(data, f, odd)
    ELSE FsSeek(f)
\* lines 124-128: the next header, or fh.seek(0, 2) and break
FsHeader(r, data, p, f) ==
    IF r.err = "EOFError"
    THEN FsGo("after", [f EXCEPT !.frames = p.frames, !.pos = Len(data)])
    ELSE IF r.err # "none"
    THEN FsEnd(r.err, r.pos, [f EXCEPT !.frames = p.frames])
    ELSE FsGo("frames", [f EXCEPT !.header = Ref(r.hdr, p.pos),
                                  !.frames = p.frames, !.pos = r.pos])
FsNext(data, verify, p, f) ==
    IF p.err # "none" THEN FsEnd(p.err, p.pos, f)
    ELSE FsHeader(fromfile(data, p.pos, f.header0.hdr.edv, verify), data, p,
                  f)
\* a pass of the loop of lines 116-128
frameset_pass(data, thread_ids, verify, f, odd) ==
    FsNext(data, verify, FsFrame(data, thread_ids, f, odd), f)
\* line 116, the test of the loop
SameFrameNr(f) ==
    Field(f.header.hdr, "frame_nr") = Field(f.header0.hdr, "frame_nr")
\* lines 129-144: the else clause of the loop if it ended without break
\* (exc is bound after a break), and what follows the loop
frameset_return(thread_ids, sort, f, exc) ==
    [to |-> "done", f |-> f,
     res |-> AfterLoop(LoopEnd("none", exc,
                               IF exc THEN f.pos
                               ELSE f.pos - StructSize(f.header.hdr.cls),
                               f.frames),
                       thread_ids, sort, f.header0)]

(***************************************************************************)
(* Word vectors as objects.  Python names refer to objects: a header holds *)
(* a reference to its word vector, and two headers may hold the same one.  *)
(* A heap is the sequence of the word vectors made so far, a reference is  *)
(* a place in it; a header object is [cls, edv, init, ref, expect].        *)
(***************************************************************************)
\* The header as a value: the object with the words that its reference
\* leads to.
Deref(heap, o) ==
    [Object(o.cls, o.edv) EXCEPT
        !.words = IF o.init THEN heap[o.ref] ELSE <<>>,
        !.init = o.init]
\* make_setter's return words[:word_index] + (word,) + words[word_index+1:]
\* makes a tuple of its own, which __setitem__ binds to self.words
StoreInPlace(heap, ref, words) ==
    [heap |-> [heap EXCEPT ![ref] = words], ref |-> ref]
StoreVector(heap, ref, words) ==
    [heap |-> Append(heap, words), ref |-> Len(heap) + 1]
\* header[item] = value on the object o: the exception, the heap and the
\* header afterwards
WrittenObject(o, r, st) ==
    [err |-> r.err, heap |-> st.heap,
     obj |-> [o EXCEPT !.ref = st.ref, !.expect = r.val.words]]
WriteObject(heap, o, r) ==
    IF r.err # "none" THEN [err |-> r.err, heap |-> heap, obj |-> o]
    ELSE WrittenObject(o, r, StoreVector(heap, o.ref, r.val.words))
setitem(heap, o, item, value) ==
    WriteObject(heap, o, SetItem(Deref(heap, o), item, value))
\* header.copy() on the object o: __init__ binds the words it is given,
\* the same object, to the new header's words; an object whose __init__
\* did not run has no words.
CopyObject(o, r) ==
    IF r.err # "none" THEN [err |-> r.err, obj |-> o]
    ELSE [err |-> "none",
          obj |-> [cls |-> r.val.cls, edv |-> r.val.edv,
                   init |-> r.val.init,
                   ref |-> IF r.val.init THEN o.ref ELSE 0,
                   expect |-> r.val.words]]
copy_object(heap, o) == CopyObject(o, copy(Deref(heap, o)))

(***************************************************************************)
(* The state.  The machines exercise the code, each with variables of its  *)
(* own; a specification runs one machine and leaves the others at rest.    *)
(***************************************************************************)
VARIABLES
    raw,     \* the byte string at hand
    pc,      \* "start", "loaded" (a header is at hand) or "done"
    op,      \* the last operation
    called,  \* the class the operation was called on
    hdr,     \* the header at hand
    err,     \* "none", or the exception the last operation raised
    out,     \* the bytes written by tobytes
    hdr2     \* the header rebuilt by fromvalues or fromkeys

hvars == <<raw, pc, op, called, hdr, err, out, hdr2>>

VARIABLES
    fpc,     \* "start" or "done"
    fhdr,    \* the header before the write
    fname,   \* the field written
    fval,    \* the value written
    fres,    \* the result of setters[name](words, value)
    fafter   \* the header after the statement header[name] = value

fvars == <<fpc, fhdr, fname, fval, fres, fafter>>

VARIABLES
    tpc,     \* the number of merges done
    tA, tB, tC,   \* the tables
    tAB,     \* tA + tB
    tBC,     \* tB + tC
    tL,      \* (tA + tB) + tC
    tR,      \* tA + (tB + tC)
    tE       \* HeaderParser(()) + tA

tvars == <<tpc, tA, tB, tC, tAB, tBC, tL, tR, tE>>

VARIABLES
    rpc,      \* "start" or "done"
    rdata,    \* the bytes of the stream
    rpos,     \* the position of the stream
    redv,     \* the edv argument of the read
    rverify,  \* the verify argument of the read
    rerr,     \* the exception of the read
    rhdr      \* the header read

rvars == <<rpc, rdata, rpos, redv, rverify, rerr, rhdr>>

VARIABLES
    spc,     \* "start" or "done"
    shdr,    \* the header
    stime,   \* the time set
    srate,   \* the framerate argument (None, or Hz)
    serr     \* the exception of set_time

svars == <<spc, shdr, stime, srate, serr>>

VARIABLES
    vpc,     \* "start" or "done"
    vkw,     \* the keyword arguments of fromvalues
    vorder,  \* the keys that fromvalues wrote, in the order of the writes
    vres     \* the result of fromvalues

vvars == <<vpc, vkw, vorder, vres>>

\* The variables of the machines of the first five, and of the later ones.
VARIABLES
    gpc,     \* "start", "set" (set_time was called) or "read"
    ghdr,    \* the header
    gtime,   \* the time set
    grate,   \* the framerate argument of set_time (None, or Hz)
    gget,    \* the framerate argument of get_time (None, or Hz)
    gset,    \* the exception of set_time ("unset" before the call)
    gread    \* the result of get_time

gvars == <<gpc, ghdr, gtime, grate, gget, gset, gread>>

VARIABLES
    ppc,     \* "start" or "done"
    porder,  \* sys.byteorder of the host
    pop,     \* "encode" (an array encoded and decoded) or "decode"
    pin,     \* the array or the words at the start
    pmid,    \* the result of the first conversion
    pout     \* the result of the conversion back

pvars == <<ppc, porder, pop, pin, pmid, pout>>

VARIABLES
    qpc,     \* "start", "set" (the framesize was set) or "read"
    qhdr,    \* the header
    qbefore, \* the header before the framesize was set
    qsize,   \* the framesize set (-1 before)
    qerr,    \* the exception of the setter
    qprops   \* the properties read

qvars == <<qpc, qhdr, qbefore, qsize, qerr, qprops>>

VARIABLES
    wpc,     \* "stream", "reading" (a frame set was read) and "done", or
             \* "headers" and "data" (a frame set was made of them)
    wdata,   \* the bytes of the stream
    wlayout, \* the frames that the stream was made of
    wpos,    \* the position of the reader
    wargs,   \* thread_ids, sort, edv and verify of the calls
    wsets,   \* the frame sets returned, each with where the reader was
    wlast    \* what the last call gave

wvars == <<wpc, wdata, wlayout, wpos, wargs, wsets, wlast>>

VARIABLES
    kpc,      \* "call", "zeros", "scan", "frames", "after", "done"
    kcall,    \* the function called and its arguments
    kstream,  \* the stream, frame by frame
    klayout,  \* the frames that the stream was made of
    kg,       \* the locals of get_frame_rate
    kf,       \* the locals of VDIFFrameSet.fromfile
    klog,     \* the headers read, in the order they were read
    kres,     \* what the function gave
    kturn     \* the steps taken so far, modulo 2
kvars == <<kpc, kcall, kstream, klayout, kg, kf, klog, kres, kturn>>

VARIABLES
    apc,      \* "run", or "idle"
    aheap,    \* the word vectors made so far, by address (1, 2, ...)
    aobjs,    \* the headers: class, edv, the address of the words, and
              \* the words they are to have (`expect`)
    acaps,    \* the references captured: address, and the words then
    alast     \* what the last step did
avars == <<apc, aheap, aobjs, acaps, alast>>

VARIABLES
    opc,      \* "start", "once", "twice", or "idle"
    oorder,   \* sys.byteorder
    oin,      \* the word x
    oout,     \* reorder64(x)
    oback     \* reorder64(reorder64(x))
ovars == <<opc, oorder, oin, oout, oback>>

oldvars == <<hvars, fvars, tvars, rvars, svars>>
xvars == <<vvars, gvars, pvars, qvars, wvars, kvars, avars, ovars>>

vars == <<hvars, fvars, tvars, rvars, svars, xvars>>

(***************************************************************************)
(* The header machine: a byte string is read into a header, which is then  *)
(* written back, verified, or rebuilt from its own mapping.                *)
(***************************************************************************)

NoHeader ==
    [cls |-> "none", parser |-> HeaderParser(<<>>), edv |-> None,
     words |-> <<>>, init |-> FALSE]

\* The byte strings: each header word is drawn from a few little-endian
\* byte quadruples, so that every class is met with valid and with invalid
\* headers.
Word0Bytes == {<<0, 0, 0, 0>>,          \* seconds 0
               <<1, 0, 0, 64>>,         \* legacy_mode, seconds 1
               <<217, 49, 215, 0>>}     \* seconds 14103001
Word1Bytes == {<<0, 0, 0, 28>>,         \* ref_epoch 28, frame_nr 0
               <<5, 0, 0, 222>>,        \* bits 30-31, ref_epoch 30, frame_nr 5
               <<0, 0, 0, 62>>}         \* ref_epoch 62, beyond the table
Word2Bytes == {<<117, 2, 0, 35>>,       \* version 1, lg2_nchan 3, length 629
               <<230, 4, 0, 32>>,       \* length 1254
               <<236, 3, 0, 32>>}       \* length 1004
Word3Bytes == {<<65, 66, 1, 4>>,        \* bits_per_sample 1, thread 1, "BA"
               <<0, 0, 0, 132>>}        \* complex_data, bits_per_sample 1
Word4Bytes == {<<0, 0, 0, 0>>,          \* edv 0
               <<16, 0, 128, 1>>,       \* edv 1, 16 MHz
               <<81, 234, 165, 2>>,     \* edv 2, sync 0xa5ea5, pol 1
               <<16, 0, 128, 3>>,       \* edv 3, 16 MHz
               <<16, 0, 128, 4>>,       \* edv 4, 16 MHz
               <<9, 0, 0, 5>>,          \* edv 5 (not registered)
               <<237, 222, 173, 171>>,  \* 0xABADDEED
               <<0, 0, 0, 171>>}        \* edv 0xab without the sync pattern
Word5Bytes == {<<237, 254, 171, 172>>,  \* 0xACABFEED
               <<0, 0, 173, 190>>}      \* Mark 5B: year 11, user 3757
Word6Bytes == {<<0, 0, 0, 0>>,
               <<1, 152, 17, 130>>}     \* Mark 5B: jday 821, seconds 19801
Word7Bytes == {<<0, 0, 0, 0>>,
               <<93, 151, 0, 0>>}       \* Mark 5B: crcc 38749

Bytes16 == {a \o b \o c \o d :
               a \in Word0Bytes, b \in Word1Bytes, c \in Word2Bytes,
               d \in Word3Bytes}
Bytes32 == {a \o b \o c \o d :
               a \in Bytes16, b \in Word4Bytes,
               c \in {x \o y : x \in Word5Bytes, y \in Word6Bytes},
               d \in Word7Bytes}

HInit ==
    /\ raw \in Bytes16 \cup Bytes32
    /\ pc = "start"
    /\ op = "none"
    /\ called = "none"
    /\ hdr = NoHeader
    /\ err = "none"
    /\ out = <<>>
    /\ hdr2 = NoHeader

\* header = cls.frombytes(raw)
FromBytes(cls) ==
    /\ pc = "start"
    /\ LET r == frombytes(cls, raw)
       IN  /\ err' = r.err
           /\ hdr' = IF r.err = "none" THEN r.val ELSE NoHeader
           /\ pc' = IF r.err = "none" THEN "loaded" ELSE "done"
    /\ op' = "frombytes"
    /\ called' = cls
    /\ UNCHANGED <<raw, out, hdr2>>
    /\ UNCHANGED <<fvars, tvars, rvars, svars, xvars>>

\* header = VDIFHeader(words, verify=verify), or with an explicit edv
\* VDIFHeader(words, edv, verify=verify), on the words of raw.
Construct(edvArg, verify) ==
    /\ pc = "start"
    /\ LET r == Call("VDIFHeader", Words(StructUnpack(Len(raw), raw)),
                     edvArg, verify)
       IN  /\ err' = r.err
           /\ hdr' = IF r.err = "none" THEN r.val ELSE NoHeader
           /\ pc' = IF r.err = "none" THEN "loaded" ELSE "done"
    /\ op' = IF edvArg = Absent THEN "construct" ELSE "construct_edv"
    /\ called' = "VDIFHeader"
    /\ UNCHANGED <<raw, out, hdr2>>
    /\ UNCHANGED <<fvars, tvars, rvars, svars, xvars>>

\* header.tobytes()
ToBytes ==
    /\ pc = "loaded"
    /\ LET r == tobytes(hdr)
       IN  /\ err' = r.err
           /\ out' = r.val
    /\ op' = "tobytes"
    /\ pc' = "done"
    /\ UNCHANGED <<raw, called, hdr, hdr2>>
    /\ UNCHANGED <<fvars, tvars, rvars, svars, xvars>>

\* header.verify()
VerifyHeader ==
    /\ pc = "loaded"
    /\ err' = Verify(hdr)
    /\ op' = "verify"
    /\ pc' = "done"
    /\ UNCHANGED <<raw, called, hdr, out, hdr2>>
    /\ UNCHANGED <<fvars, tvars, rvars, svars, xvars>>

\* cls.fromvalues(**header), for cls the class of the header or VDIFHeader
FromValues(cls) ==
    /\ pc = "loaded"
    /\ Readable(hdr)
    /\ cls \in {hdr.cls, "VDIFHeader"}
    /\ LET r == fromvalues(cls, Mapping(hdr))
       IN  /\ err' = r.err
           /\ hdr2' = IF r.err = "none" THEN r.val ELSE NoHeader
    /\ op' = "fromvalues"
    /\ called' = cls
    /\ pc' = "done"
    /\ UNCHANGED <<raw, hdr, out>>
    /\ UNCHANGED <<fvars, tvars, rvars, svars, xvars>>

\* cls.fromkeys(**header)
FromKeys(cls) ==
    /\ pc = "loaded"
    /\ Readable(hdr)
    /\ cls \in {hdr.cls, "VDIFHeader"}
    /\ LET r == fromkeys(cls, Mapping(hdr))
       IN  /\ err' = r.err
           /\ hdr2' = IF r.err = "none" THEN r.val ELSE NoHeader
    /\ op' = "fromkeys"
    /\ called' = cls
    /\ pc' = "done"
    /\ UNCHANGED <<raw, hdr, out>>
    /\ UNCHANGED <<fvars, tvars, rvars, svars, xvars>>

HNext ==
    \/ \E cls \in Classes : FromBytes(cls)
    \/ \E edvArg \in {Absent, PyFalse, I(3)}, verify \in BOOLEAN :
           Construct(edvArg, verify)
    \/ ToBytes
    \/ VerifyHeader
    \/ \E cls \in Classes : FromValues(cls)
    \/ \E cls \in Classes : FromKeys(cls)

(***************************************************************************)
(* The field machine: one write header[name] = value on a header of any    *)
(* class, with the setter's result and the header after the statement.     *)
(***************************************************************************)

\* Word vectors to write into: all bits clear, all bits set, and a pattern.
AllOnes == 0..31
Pattern == {1, 2, 5, 8, 13, 16, 21, 24, 29, 30}
FieldWordChoices == {{}, AllOnes, Pattern}
\* The values tried on a field of bit_length w: None, the bools, 0, the
\* largest value that fits, a pattern, and values that do not fit
\* (2^w, 2^w + the largest value, -1, -2^w).
ValuesFor(w) ==
    {None, PyTrue, PyFalse, I(0), PyInt(Ones(w)), PyInt(Pattern \cap Ones(w)),
     PyInt({w}), PyInt(Ones(w + 1)), PyNeg({}), PyNeg(Ones(w))}

ConcreteClasses == Classes \ {"VDIFHeader"}

FInit ==
    /\ fpc = "start"
    /\ \E cls \in ConcreteClasses, w \in FieldWordChoices :
           fhdr = [Object(cls, None) EXCEPT
                      !.words = [i \in 1..(StructSize(cls) \div 4) |-> w],
                      !.init = TRUE]
    /\ fname = "none"
    /\ fval = None
    /\ fres = Raise("none")
    /\ fafter = NoHeader

\* header[name] = value: self.words = setters[name](self.words, value)
WriteField(name, value) ==
    /\ fpc = "start"
    /\ name \in Keys(fhdr.parser.items)
    /\ value \in ValuesFor(Lookup(fhdr.parser.items, name).len)
    /\ fres' = SetField(fhdr.parser, name, fhdr.words, value)
    /\ fafter' = Assign(fhdr, name, value).hdr
    /\ fname' = name
    /\ fval' = value
    /\ fpc' = "done"
    /\ UNCHANGED fhdr
    /\ UNCHANGED <<hvars, tvars, rvars, svars, xvars>>

AllNames == UNION {Keys(ParserFor(cls).items) : cls \in ConcreteClasses}
BitLengths ==
    UNION {{ParserFor(cls).items[i].def.len :
               i \in 1..Len(ParserFor(cls).items)} : cls \in ConcreteClasses}
AllValues == UNION {ValuesFor(w) : w \in BitLengths}
FNext == \E name \in AllNames, value \in AllValues : WriteField(name, value)


(***************************************************************************)
(* The table machine: three field tables are merged in both groupings,     *)
(* and the first is merged into the empty table.                           *)
(***************************************************************************)

MaxFields == 2
FieldNames == <<"a", "b", "c">>
NoTable == [items |-> <<"none">>, parsers |-> <<>>]

\* The definition a table gives a name: the tables tagged 1, 2 and 3 differ
\* in word, bit index, bit length and default.
TestDef(tag, i) ==
    Fd(FieldNames[i], (i + tag) % 4, 4 * tag, tag + i,
       IF tag = 2 THEN None ELSE I(tag))

NameLists ==
    {q \in UNION {[1..n -> 1..Len(FieldNames)] : n \in 0..MaxFields} :
        \A i, j \in DOMAIN q : i # j => q[i] # q[j]}

\* The tables with the tag: sequences of distinct names, and the tables of
\* the header classes.
TestTables(tag) ==
    {HeaderParser([i \in DOMAIN q |-> TestDef(tag, q[i])]) : q \in NameLists}
    \cup {VDIFLegacyHeader_parser, VDIFBaseHeader_extra,
          VDIFSampleRateHeader_extra}

TInit ==
    /\ tpc = 0
    /\ tA \in TestTables(1)
    /\ tB \in TestTables(2)
    /\ tC \in TestTables(3)
    /\ tAB = NoTable
    /\ tBC = NoTable
    /\ tL = NoTable
    /\ tR = NoTable
    /\ tE = NoTable

AddAB ==
    /\ tpc = 0
    /\ tAB' = HeaderParserAdd(tA, tB)
    /\ tpc' = 1
    /\ UNCHANGED <<tA, tB, tC, tBC, tL, tR, tE>>
    /\ UNCHANGED <<hvars, fvars, rvars, svars, xvars>>

AddBC ==
    /\ tpc = 1
    /\ tBC' = HeaderParserAdd(tB, tC)
    /\ tpc' = 2
    /\ UNCHANGED <<tA, tB, tC, tAB, tL, tR, tE>>
    /\ UNCHANGED <<hvars, fvars, rvars, svars, xvars>>

AddLeft ==
    /\ tpc = 2
    /\ tL' = HeaderParserAdd(tAB, tC)
    /\ tpc' = 3
    /\ UNCHANGED <<tA, tB, tC, tAB, tBC, tR, tE>>
    /\ UNCHANGED <<hvars, fvars, rvars, svars, xvars>>

AddRight ==
    /\ tpc = 3
    /\ tR' = HeaderParserAdd(tA, tBC)
    /\ tpc' = 4
    /\ UNCHANGED <<tA, tB, tC, tAB, tBC, tL, tE>>
    /\ UNCHANGED <<hvars, fvars, rvars, svars, xvars>>

AddEmpty ==
    /\ tpc = 4
    /\ tE' = HeaderParserAdd(HeaderParser(<<>>), tA)
    /\ tpc' = 5
    /\ UNCHANGED <<tA, tB, tC, tAB, tBC, tL, tR>>
    /\ UNCHANGED <<hvars, fvars, rvars, svars, xvars>>

TNext == AddAB \/ AddBC \/ AddLeft \/ AddRight \/ AddEmpty

(***************************************************************************)
(* The file machine: a stream that starts with a header is read with       *)
(* VDIFHeader.fromfile.                                                    *)
(***************************************************************************)

\* The bytes that follow the header bytes in a stream.
MaxPayload == 16
Filler(n) == [i \in 1..n |-> 255]

RInit ==
    /\ rpc = "start"
    /\ \E b \in Bytes16 \cup Bytes32, n \in {0, MaxPayload} :
           rdata = b \o Filler(n)
    /\ rpos = 0
    /\ redv = None
    /\ rverify = TRUE
    /\ rerr = "none"
    /\ rhdr = NoHeader

\* header = VDIFHeader.fromfile(fh, edv, verify)
FromFile(edv, verify) ==
    /\ rpc = "start"
    /\ LET r == fromfile(rdata, rpos, edv, verify)
       IN  /\ rerr' = r.err
           /\ rhdr' = IF r.err = "none" THEN r.hdr ELSE NoHeader
           /\ rpos' = r.pos
    /\ redv' = edv
    /\ rverify' = verify
    /\ rpc' = "done"
    /\ UNCHANGED rdata
    /\ UNCHANGED <<hvars, fvars, tvars, svars, xvars>>

RNext == \E edv \in {None, PyFalse, I(3)}, verify \in BOOLEAN :
             FromFile(edv, verify)

(***************************************************************************)
(* The time machine: a header is given a time with set_time.               *)
(***************************************************************************)

\* A fresh header of the class with the fields given.
RECURSIVE WithFields(_, _)
WithFields(h, pairs) ==
    IF pairs = <<>> THEN h
    ELSE WithFields(SetItem(h, pairs[1][1], I(pairs[1][2])).val, Tail(pairs))
Fresh(cls, edv) ==
    [Object(cls, edv) EXCEPT !.words = Zeros(StructSize(cls) \div 4),
                             !.init = TRUE]

\* Headers with and without a frame rate of their own: 10 kHz in frames of
\* 20000 samples is a frame every second; frame_length 4 is a frame
\* without payload.
TimeHeaders ==
    {WithFields(Fresh("VDIFLegacyHeader", PyFalse), <<<<"legacy_mode", 1>>>>),
     WithFields(Fresh("VDIFBaseHeader", I(5)), <<<<"edv", 5>>>>),
     WithFields(Fresh("VDIFHeader1", I(1)),
                <<<<"edv", 1>>, <<"frame_length", 629>>,
                  <<"bits_per_sample", 1>>, <<"sample_rate", 10>>>>),
     WithFields(Fresh("VDIFHeader3", I(3)),
                <<<<"edv", 3>>, <<"frame_length", 4>>,
                  <<"sample_rate", 10>>>>)}

\* The times: at, just after and well after a few reference epochs, with
\* fractions on either side of the threshold of 2 ns and of half a frame
\* (never on them, where the floating point of the code decides).
EpochChoices == {0, 1, 12, 29, ref_max - 1}
SecondChoices == {0, 1, 14103001}
NsChoices == {0, 1, 3, 400000, 600000, 250000000, 999600000}
Times == {[sec |-> RefEpochSec(k) + d, ns |-> f] :
             k \in EpochChoices, d \in SecondChoices, f \in NsChoices}
MaxRate == 2000
RateChoices == {None, I(1), I(1000), I(MaxRate)}

SInit ==
    /\ spc = "start"
    /\ shdr \in TimeHeaders
    /\ stime = [sec |-> 0, ns |-> 0]
    /\ srate = None
    /\ serr = "none"

\* header.set_time(time, framerate)
SetTime(time, rate) ==
    /\ spc = "start"
    /\ LET r == set_time(shdr, time, rate)
       IN  /\ serr' = r.err
           /\ shdr' = r.hdr
    /\ stime' = time
    /\ srate' = rate
    /\ spc' = "done"
    /\ UNCHANGED <<hvars, fvars, tvars, rvars, xvars>>

SNext == \E time \in Times, rate \in RateChoices : SetTime(time, rate)

(***************************************************************************)
(* The values machine: VDIFHeader.fromvalues with keyword arguments that   *)
(* name fields and properties.                                             *)
(***************************************************************************)
\* The keyword arguments: none or one of the values, for each keyword.
NoKw == [key \in {} |-> None]
Opt(key, values) == {NoKw} \cup {key :> v : v \in values}

ValueEdvs == {PyFalse, I(1), I(3), I(5)}
ValueTimes ==
    {[sec |-> RefEpochSec(29) + 14103001, ns |-> f] :
        f \in {0, 400000, 250000000}}
ValueBandwidths == {[unit |-> "MHz", val |-> 16], [unit |-> "kHz", val |-> 10]}
ValueStations == {StrStation(<<65, 66>>), IntStation(70000)}

\* The keys that the two loops of fromvalues write on a header of the class
\* with the table: the fields among the keywords or with a default, then
\* the properties among the keywords.
WrittenFields(items, kw) ==
    LET Written(item) == item.name \in DOMAIN kw \/ item.def.dflt # None
        names == SelectSeq(items, Written)
    IN  [i \in 1..Len(names) |-> names[i].name]
WrittenProperties(cls, kw) ==
    LET Given(key) == key \in DOMAIN kw
    IN  SelectSeq(PropertiesOf(cls), Given)

VInit ==
    /\ vpc = "start"
    /\ vkw = NoKw
    /\ vorder = <<>>
    /\ vres = Raise("none")

\* VDIFHeader.fromvalues(edv=edv, **kw)
ValuesResult(kw, r) ==
    /\ vkw' = kw
    /\ vres' = r
    /\ vorder' = IF r.err # "none" THEN <<>>
                 ELSE WrittenFields(r.val.parser.items,
                                    kw @@ ("legacy_mode" :> PyFalse))
                          \o WrittenProperties(r.val.cls, kw)
FromValuesKw(kw) ==
    /\ vpc = "start"
    /\ ValuesResult(kw, fromvalues("VDIFHeader", kw))
    /\ vpc' = "done"
    /\ UNCHANGED <<oldvars, gvars, pvars, qvars, wvars, kvars, avars, ovars>>

VNext ==
    \E edv \in ValueEdvs,
       a \in Opt("framesize", {5032, 100}),
       b \in Opt("payloadsize", {5000}),
       c \in Opt("bps", {2}),
       d \in Opt("nchan", {1, 3}),
       e \in Opt("samples_per_frame", {20000}),
       f \in Opt("station", ValueStations),
       g \in Opt("time", ValueTimes),
       i \in Opt("bandwidth", ValueBandwidths),
       j \in Opt("complex_data", {PyTrue}) :
        FromValuesKw(("edv" :> edv) @@ a @@ b @@ c @@ d @@ e @@ f @@ g @@ i
                         @@ j)

(***************************************************************************)
(* The clock machine: a header is given a time with set_time, and its time *)
(* is read with get_time.                                                  *)
(***************************************************************************)
\* Headers without a frame rate of their own, with frame_nr 0 and 5 and
\* with a ref_epoch within and beyond the table.
PlainHeaders ==
    {WithFields(h, <<<<"ref_epoch", e>>, <<"seconds", 100>>,
                     <<"frame_nr", n>>>>) :
        h \in {WithFields(Fresh("VDIFLegacyHeader", PyFalse),
                          <<<<"legacy_mode", 1>>>>),
               WithFields(Fresh("VDIFBaseHeader", I(5)), <<<<"edv", 5>>>>),
               WithFields(Fresh("VDIFHeader2", I(2)), <<<<"edv", 2>>>>)},
        e \in {28, ref_max, 63}, n \in {0, 5}}
\* Headers with a frame rate of their own: 1600 frames a second (16 MHz in
\* frames of 20000 samples), a frame every second (10 kHz), and 1024
\* million frames a second (8 MHz of 64 channels in frames of one sample).
RateHeaders ==
    {WithFields(Fresh("VDIFHeader1", I(1)),
                <<<<"edv", 1>>, <<"frame_length", 629>>,
                  <<"bits_per_sample", 1>>, <<"sampling_unit", 1>>,
                  <<"sample_rate", 16>>, <<"frame_nr", 7>>>>),
     WithFields(Fresh("VDIFHeader3", I(3)),
                <<<<"edv", 3>>, <<"frame_length", 629>>,
                  <<"bits_per_sample", 1>>, <<"sample_rate", 10>>>>),
     WithFields(Fresh("VDIFHeader4", I(4)),
                <<<<"edv", 4>>, <<"frame_length", 5>>, <<"lg2_nchan", 6>>,
                  <<"sampling_unit", 1>>, <<"sample_rate", 8>>>>)}
ClockHeaders == PlainHeaders \cup RateHeaders
ClockRates == {None, I(1000)}
\* The frame rate that a call with the argument uses, 0 if there is none.
RateOf(h, rate) ==
    IF rate # None THEN Num(rate.b)
    ELSE IF framerate(h).err = "none" THEN framerate(h).val ELSE 0
\* The times whose frame number the arithmetic at hand can hold (the frame
\* numbers left out are beyond the 24 bits of frame_nr).
Countable(h, time, rate) ==
    time.ns < 2 \/ RateOf(h, rate) <= MaxRate

GInit ==
    /\ gpc = "start"
    /\ ghdr \in ClockHeaders
    /\ gtime = [sec |-> 0, ns |-> 0]
    /\ grate = None
    /\ gget = None
    /\ gset = "unset"
    /\ gread = Raise("none")

\* header.set_time(time, framerate)
SetClock(time, rate) ==
    /\ gpc = "start"
    /\ Countable(ghdr, time, rate)
    /\ LET r == set_time(ghdr, time, rate)
       IN  /\ gset' = r.err
           /\ ghdr' = r.hdr
    /\ gtime' = time
    /\ grate' = rate
    /\ gpc' = "set"
    /\ UNCHANGED <<gget, gread>>
    /\ UNCHANGED <<oldvars, vvars, pvars, qvars, wvars, kvars, avars, ovars>>

\* header.get_time(framerate)
ReadClock(rate) ==
    /\ gpc \in {"start", "set"}
    /\ gread' = get_time(ghdr, rate, None)
    /\ gget' = rate
    /\ gpc' = "read"
    /\ UNCHANGED <<ghdr, gtime, grate, gset>>
    /\ UNCHANGED <<oldvars, vvars, pvars, qvars, wvars, kvars, avars, ovars>>

GNext ==
    \/ \E time \in Times, rate \in ClockRates : SetClock(time, rate)
    \/ \E rate \in ClockRates : ReadClock(rate)

(***************************************************************************)
(* The payload machine: an array is encoded and the words decoded, or      *)
(* words are decoded and the array encoded.                                *)
(***************************************************************************)
MaxWords == 2
Levels == {-3, -1, 1, 3}
\* The words: none, one or all of the 64 bits, and two striped patterns;
\* the vectors have one such word among words of no bits or of all bits.
WordChoices ==
    {{}, 0..63, Mask64(43605), Mask64(4660)} \cup {{i} : i \in 0..63}
PayloadWords ==
    {[i \in 1..n |-> IF i = at THEN word ELSE rest] :
        n \in 1..MaxWords, at \in 1..MaxWords, word \in WordChoices,
        rest \in {{}, 0..63}}
\* The arrays: every sample at one level but one, and a pattern that tells
\* every sample of a group of four and every channel from the others.
OneOff(n, base, s0, c0, level) ==
    [s \in 1..(4 * n) |->
        [c \in 1..8 |-> IF s = s0 /\ c = c0 THEN level ELSE base]]
Striped(n) ==
    [s \in 1..(4 * n) |->
        [c \in 1..8 |-> lut4level[((s + 3 * c + ((c - 1) \div 4)) % 4) + 1]]]
PayloadArrays ==
    {Striped(n) : n \in 1..MaxWords}
        \cup {OneOff(n, base, s0, c0, level) :
                 n \in 1..MaxWords, base \in Levels, s0 \in 1..(4 * MaxWords),
                 c0 \in 1..8, level \in Levels}

PInit ==
    /\ ppc = "start"
    /\ porder \in {"little", "big"}
    /\ pop = "none"
    /\ pin = <<>>
    /\ pmid = <<>>
    /\ pout = <<>>

\* decode_8chan_2bit_fanout4(encode_8chan_2bit_fanout4(values))
EncodeDecode(values) ==
    /\ ppc = "start"
    /\ pin' = values
    /\ pmid' = encode_8chan_2bit_fanout4(porder, values).val
    /\ pout' = decode_8chan_2bit_fanout4(porder, pmid')
    /\ pop' = "encode"
    /\ ppc' = "done"
    /\ UNCHANGED porder
    /\ UNCHANGED <<oldvars, vvars, gvars, qvars, wvars, kvars, avars, ovars>>

\* encode_8chan_2bit_fanout4(decode_8chan_2bit_fanout4(words))
DecodeEncode(words) ==
    /\ ppc = "start"
    /\ pin' = words
    /\ pmid' = decode_8chan_2bit_fanout4(porder, words)
    /\ pout' = encode_8chan_2bit_fanout4(porder, pmid').val
    /\ pop' = "decode"
    /\ ppc' = "done"
    /\ UNCHANGED porder
    /\ UNCHANGED <<oldvars, vvars, gvars, qvars, wvars, kvars, avars, ovars>>

PNext ==
    \/ \E values \in PayloadArrays : EncodeDecode(values)
    \/ \E words \in PayloadWords : DecodeEncode(words)

(***************************************************************************)
(* The property machine: the framesize of a header is set, and the sizes   *)
(* and counts of the header are read.                                      *)
(***************************************************************************)
\* Headers of every class with short, usual and long frames, few and many
\* bits per sample, real and complex, one and many channels.
PropertyHeaders ==
    {WithFields(h, <<<<"frame_length", len>>, <<"bits_per_sample", bits>>,
                     <<"complex_data", cplx>>, <<"lg2_nchan", lg2>>>>) :
        h \in {WithFields(Fresh("VDIFLegacyHeader", PyFalse),
                          <<<<"legacy_mode", 1>>>>),
               WithFields(Fresh("VDIFBaseHeader", I(5)), <<<<"edv", 5>>>>),
               WithFields(Fresh("VDIFHeader1", I(1)), <<<<"edv", 1>>>>),
               WithFields(Fresh("VDIFHeader2", I(2)), <<<<"edv", 2>>>>),
               WithFields(Fresh("VDIFMark5BHeader", I(171)),
                          <<<<"edv", 171>>>>)},
        len \in {0, 5, 629, 1254}, bits \in {0, 1, 31}, cplx \in {0, 1},
        lg2 \in {0, 3, 30}}
\* The sizes set: that 8 divides and does not divide, and one too long for
\* the 24 bits of frame_length.
SizeChoices == {0, 8, 100, 5032, 5039, 5040, 134217728}

NoProps ==
    [framesize |-> 0, payloadsize |-> 0, bps |-> 0, nchan |-> 0,
     samples_per_frame |-> 0]

QInit ==
    /\ qpc = "start"
    /\ qhdr \in PropertyHeaders
    /\ qbefore = qhdr
    /\ qsize = -1
    /\ qerr = "none"
    /\ qprops = NoProps

\* header.framesize = size
SetFrameSize(size) ==
    /\ qpc = "start"
    /\ LET l == framesize_setter(qhdr, size)
       IN  /\ qerr' = l.err
           /\ qhdr' = l.hdr
    /\ qsize' = size
    /\ qpc' = "set"
    /\ UNCHANGED <<qbefore, qprops>>
    /\ UNCHANGED <<oldvars, vvars, gvars, pvars, wvars, kvars, avars, ovars>>

\* header.framesize, header.payloadsize, header.bps, header.nchan,
\* header.samples_per_frame
ReadProperties ==
    /\ qpc \in {"start", "set"}
    /\ qprops' = [framesize |-> framesize(qhdr),
                  payloadsize |-> payloadsize(qhdr),
                  bps |-> bps(qhdr),
                  nchan |-> nchan(qhdr),
                  samples_per_frame |-> samples_per_frame(qhdr)]
    /\ qpc' = "read"
    /\ UNCHANGED <<qhdr, qbefore, qsize, qerr>>
    /\ UNCHANGED <<oldvars, vvars, gvars, pvars, wvars, kvars, avars, ovars>>

QNext ==
    \/ \E size \in SizeChoices : SetFrameSize(size)
    \/ ReadProperties

(***************************************************************************)
(* The frame set machine: frame sets are read from a stream of frames with *)
(* VDIFFrameSet.fromfile, call after call, or a frame set is made of       *)
(* headers with VDIFFrameSet.fromdata.                                     *)
(***************************************************************************)
MaxFrames == 3
\* The frames: legacy frames of 32 bytes, and frames of 48 bytes with edv
\* 5 (no class of its own) and edv 0.  The header with edv 0 is the one
\* that VDIFHeader(words, verify=False) makes of words that say edv 0 (a
\* VDIFLegacyHeader with 8 words).  The streams are of legacy frames and
\* of frames with edv 5.
FrameKinds == {"legacy", "edv5", "edv0"}
StreamKinds == {"legacy", "edv5"}
KindHeader(kind) ==
    CASE kind = "legacy" ->
             WithFields(Fresh("VDIFLegacyHeader", PyFalse),
                        <<<<"legacy_mode", 1>>, <<"frame_length", 4>>>>)
      [] kind = "edv5" ->
             WithFields(Fresh("VDIFBaseHeader", I(5)),
                        <<<<"edv", 5>>, <<"frame_length", 6>>>>)
      [] kind = "edv0" ->
             Call("VDIFHeader",
                  Words(WithFields(Fresh("VDIFBaseHeader", I(5)),
                                   <<<<"frame_length", 6>>>>).words),
                  Absent, FALSE).val
\* The bytes of the payload of a frame.
PayloadBytes(kind) == payloadsize(KindHeader(kind))
\* The header and the bytes of a frame of the thread with the frame
\* number.
FrameHeader(kind, thread, nr) ==
    WithFields(KindHeader(kind),
               <<<<"seconds", 100>>, <<"thread_id", thread>>,
                 <<"frame_nr", nr>>>>)
FrameBytes(kind, thread, nr) ==
    tobytes(FrameHeader(kind, thread, nr)).val \o Filler(PayloadBytes(kind))
FrameSize(kind) == framesize(KindHeader(kind))
\* The frames of a stream: a thread (0 or 1) and a frame number (1 or 2)
\* each, the frame numbers in file order.  No frame is shorter than its
\* header, and no bytes of the streams read as the header of such a frame
\* with the frame number sought (frame_nr 0 in words of zeros).
Layouts ==
    {l \in UNION {[1..n -> {0, 1} \X {1, 2}] : n \in 1..MaxFrames} :
        \A i \in 1..(Len(l) - 1) : l[i][2] <= l[i + 1][2]}
RECURSIVE StreamOf(_, _)
StreamOf(kind, l) ==
    IF l = <<>> THEN <<>>
    ELSE FrameBytes(kind, l[1][1], l[1][2]) \o StreamOf(kind, Tail(l))
LayoutOf(kind, l) ==
    [i \in 1..Len(l) |->
        [header |-> FrameHeader(kind, l[i][1], l[i][2]),
         thread_id |-> l[i][1], frame_nr |-> l[i][2],
         at |-> (i - 1) * FrameSize(kind), size |-> FrameSize(kind)]]
ThreadIdChoices == {NoIds, Ids(<<>>), Ids(<<1>>), Ids(<<0, 1>>)}
\* edv and verify of the calls: the defaults, without verification, and
\* for a stream known to be legacy.
CallChoices == {<<None, TRUE>>, <<None, FALSE>>, <<PyFalse, TRUE>>}
NoLast == [err |-> "none", set |-> NoSet, pos |-> 0, ended |-> FALSE,
           exc |-> FALSE, found |-> 0]

NoArgs == [thread_ids |-> NoIds, sort |-> TRUE, edv |-> None,
           verify |-> TRUE]

\* A stream, whole or with its last 4 bytes missing, and the arguments of
\* the calls; or headers to make a frame set of.
WInit ==
    /\ \/ /\ wpc = "stream"
          /\ \E kind \in StreamKinds, l \in Layouts, cut \in {0, 4} :
                 /\ wdata = SubSeq(StreamOf(kind, l), 1,
                                   Len(l) * FrameSize(kind) - cut)
                 /\ wlayout = LayoutOf(kind, l)
          /\ \E ids \in ThreadIdChoices, sort \in BOOLEAN,
                c \in CallChoices :
                 wargs = [thread_ids |-> ids, sort |-> sort, edv |-> c[1],
                          verify |-> c[2]]
       \/ /\ wpc = "headers"
          /\ wdata = <<>>
          /\ \E kind \in FrameKinds, l \in Layouts :
                 wlayout = LayoutOf(kind, l)
          /\ wargs = NoArgs
    /\ wpos = 0
    /\ wsets = <<>>
    /\ wlast = NoLast

\* frameset = VDIFFrameSet.fromfile(fh, thread_ids, sort, edv, verify)
ReadFrameSet ==
    /\ wpc \in {"stream", "reading"}
    /\ LET r == frameset_fromfile(wdata, wpos, wargs.thread_ids, wargs.sort,
                                  wargs.edv, wargs.verify)
       IN  /\ wlast' = r
           /\ wpos' = r.pos
           /\ wsets' = IF r.err = "none"
                       THEN Append(wsets, [set |-> r.set, start |-> wpos,
                                           end |-> r.pos, exc |-> r.exc])
                       ELSE wsets
           /\ wpc' = IF r.err = "none" THEN "reading" ELSE "done"
    /\ UNCHANGED <<wdata, wlayout, wargs>>
    /\ UNCHANGED <<oldvars, vvars, gvars, pvars, qvars, kvars, avars, ovars>>

\* The headers of the first k frames of the layout, as objects of their
\* own.
RECURSIVE HeadersOf(_, _)
HeadersOf(layout, k) ==
    IF k = 0 THEN <<>>
    ELSE Append(HeadersOf(layout, k - 1),
                Ref(layout[k].header, k - 1))
\* frameset = VDIFFrameSet.fromdata(data, headers) for data of n threads,
\* with the headers of the layout or with the first of them for all
\* threads
FromData(n, single) ==
    /\ wpc = "headers"
    /\ LET r == IF single
                THEN frameset_fromheader(n, HeadersOf(wlayout, 1)[1].hdr)
                ELSE frameset_fromdata(n, HeadersOf(wlayout, Len(wlayout)))
       IN  /\ wlast' = [NoLast EXCEPT !.err = r.err]
           /\ wsets' = IF r.err = "none"
                       THEN <<[set |-> r.val, start |-> 0, end |-> 0,
                               exc |-> FALSE]>>
                       ELSE wsets
    /\ wpc' = "data"
    /\ UNCHANGED <<wdata, wlayout, wpos, wargs>>
    /\ UNCHANGED <<oldvars, vvars, gvars, pvars, qvars, kvars, avars, ovars>>

WNext ==
    \/ ReadFrameSet
    \/ \E n \in 0..MaxFrames, single \in BOOLEAN : FromData(n, single)

(***************************************************************************)
(* The scan machine: get_frame_rate or VDIFFrameSet.fromfile is called on  *)
(* a stream and runs a pass of its loop at a time.                         *)
(***************************************************************************)
MaxScan == 4
\* The frames of a stream: a frame number (0..2) each; one of the VDIF
\* frames may say a frame_length of its own (`bad` is its place and the
\* length: 0, or 3 words of 8 bytes, less than the header), the others
\* have frame_length 6, a payload of 16 bytes.  The threads alternate; the
\* second goes up by `adv` wherever the frame number goes back to 0.
ScanNrs == UNION {[1..n -> 0..2] : n \in 1..MaxScan}
BadChoices(n) == {<<0, 6>>, <<1, 0>>, <<n, 0>>, <<1, 3>>}
RECURSIVE WrapsBefore(_, _)
WrapsBefore(nrs, i) ==
    IF i <= 1 THEN 0
    ELSE WrapsBefore(nrs, i - 1)
             + (IF nrs[i] = 0 /\ nrs[i - 1] > 0 THEN 1 ELSE 0)
ScanLayout(nrs, bad, adv) ==
    [i \in 1..Len(nrs) |->
        [frame_nr |-> nrs[i], thread_id |-> (i - 1) % 2,
         frame_length |-> IF i = bad[1] THEN bad[2] ELSE 6,
         seconds |-> 5 + adv * WrapsBefore(nrs, i)]]
ScanHeader(cls, l) ==
    IF cls = "Mark5BHeader"
    THEN WithFields(SetItem(Mark5BHeader(Zeros(4)), "sync_pattern",
                            None).val,
                    <<<<"frame_nr", l.frame_nr>>,
                      <<"bcd_seconds", l.seconds>>>>)
    ELSE WithFields(Fresh("VDIFBaseHeader", I(5)),
                    <<<<"edv", 5>>, <<"frame_length", l.frame_length>>,
                      <<"seconds", l.seconds>>,
                      <<"thread_id", l.thread_id>>,
                      <<"frame_nr", l.frame_nr>>>>)
ScanFrame(cls, l) ==
    [head |-> StructPack(IF cls = "Mark5BHeader" THEN four_word_size
                         ELSE eight_word_size, ScanHeader(cls, l).words),
     pay |-> IF HeaderPayloadSize(ScanHeader(cls, l)) < 0 THEN 0
             ELSE HeaderPayloadSize(ScanHeader(cls, l))]
ScanStream(cls, layout) ==
    [i \in 1..Len(layout) |-> ScanFrame(cls, layout[i])]
ScanCall(fn, cls, thread_ids) ==
    [fn |-> fn, cls |-> cls, thread_ids |-> thread_ids, sort |-> TRUE,
     edv |-> None, verify |-> TRUE]
NoScan == GfrLocals(None, 0, -1, 0)
NoRate == [err |-> "none", val |-> 0, warn |-> FALSE]

KInit ==
    /\ kpc = "call"
    /\ \E nrs \in ScanNrs :
          \/ \E adv \in {1, 2} :
                 /\ kcall = ScanCall("get_frame_rate", "Mark5BHeader", NoIds)
                 /\ klayout = ScanLayout(nrs, <<0, 6>>, adv)
          \/ \E bad \in {<<0, 6>>, <<1, 0>>} :
                 /\ kcall = ScanCall("get_frame_rate", "VDIFHeader", NoIds)
                 /\ klayout = ScanLayout(nrs, bad, 1)
          \/ \E bad \in BadChoices(Len(nrs)),
                ids \in {NoIds, Ids(<<1>>), Ids(<<0, 1>>)} :
                 /\ kcall = ScanCall("fromfile", "VDIFHeader", ids)
                 /\ klayout = ScanLayout(nrs, bad, 1)
    /\ kstream = ScanStream(kcall.cls, klayout)
    /\ kg = NoScan
    /\ kf = NoLocals
    /\ klog = <<>>
    /\ kres = NoRate
    /\ kturn = 0

\* The log of the headers read: where, the frame number and the thread,
\* whether the frame was kept, and whether the same bytes were read again
\* (which is not entered a second time).
Logged(log, header, after) ==
    IF log # <<>> /\ log[Len(log)].at = header.id
    THEN [log EXCEPT ![Len(log)].again = TRUE]
    ELSE Append(log,
                [at |-> header.id, after |-> after,
                 frame_nr |-> FieldNum(header.hdr, "frame_nr"),
                 thread_id |-> IF "thread_id" \in Keys(header.hdr.parser.items)
                               THEN FieldNum(header.hdr, "thread_id") ELSE 0,
                 payloadsize |-> HeaderPayloadSize(header.hdr),
                 kept |-> FALSE, again |-> FALSE])
Kept(log, found) ==
    IF found THEN [log EXCEPT ![Len(log)].kept = TRUE] ELSE log

\* A step of get_frame_rate
GfrStep(r) ==
    /\ kpc' = r.to
    /\ kg' = r.g
    /\ klog' = IF r.err = "none" /\ r.to # "done" THEN Logged(klog, r.g.header, r.g.pos)
               ELSE klog
    /\ kres' = IF r.to = "done"
               THEN [err |-> r.err, val |-> r.val, warn |-> r.warn]
               ELSE kres
    /\ kturn' = 1 - kturn
    /\ UNCHANGED <<kcall, kstream, klayout, kf>>
    /\ UNCHANGED <<oldvars, vvars, gvars, pvars, qvars, wvars, avars, ovars>>

GetFrameRate ==
    /\ kpc = "call"
    /\ kcall.fn = "get_frame_rate"
    /\ GfrStep(get_frame_rate_first(kcall.cls, kstream, kg))

SkipZero ==
    /\ kpc = "zeros"
    /\ FieldNum(kg.header.hdr, "frame_nr") = 0
    /\ GfrStep(get_frame_rate_zero(kcall.cls, kstream, kg))

ScanFrames ==
    /\ kpc \in {"zeros", "scan"}
    /\ FieldNum(kg.header.hdr, "frame_nr") > 0
    /\ GfrStep(get_frame_rate_scan(kcall.cls, kstream, kg))

ReturnRate ==
    /\ kpc = "scan"
    /\ FieldNum(kg.header.hdr, "frame_nr") = 0
    /\ GfrStep(get_frame_rate_return(kg))

\* A step of VDIFFrameSet.fromfile
FsStep(r) ==
    /\ kpc' = r.to
    /\ kf' = r.f
    /\ klog' = IF r.to = "frames"
               THEN Logged(Kept(klog, Len(r.f.frames) > Len(kf.frames)),
                           r.f.header, r.f.pos)
               ELSE Kept(klog, Len(r.f.frames) > Len(kf.frames))
    /\ kres' = IF r.to = "done" THEN r.res ELSE kres
    /\ kturn' = 1 - kturn
    /\ UNCHANGED <<kcall, kstream, klayout, kg>>
    /\ UNCHANGED <<oldvars, vvars, gvars, pvars, qvars, wvars, avars, ovars>>

FrameSetFromFile ==
    /\ kpc = "call"
    /\ kcall.fn = "fromfile"
    /\ FsStep(frameset_first(StreamBytes(kstream), 0, kcall.edv,
                             kcall.verify))

FrameSetPass(odd) ==
    /\ kpc = "frames"
    /\ SameFrameNr(kf)
    /\ FsStep(frameset_pass(StreamBytes(kstream), kcall.thread_ids,
                            kcall.verify, kf, odd))

FrameSetReturn ==
    /\ \/ kpc = "frames" /\ ~SameFrameNr(kf)
       \/ kpc = "after"
    /\ FsStep(frameset_return(kcall.thread_ids, kcall.sort, kf,
                              kpc = "after"))

KNext ==
    \/ GetFrameRate
    \/ SkipZero
    \/ ScanFrames
    \/ ReturnRate
    \/ FrameSetFromFile
    \/ \E odd \in BOOLEAN : FrameSetPass(odd)
    \/ FrameSetReturn

(***************************************************************************)
(* The sharing machine: headers are copied, written to and read, and the   *)
(* references to their word vectors are captured.                         *)
(***************************************************************************)
MaxObjects == 3
MaxVectors == 3
NoStep == [op |-> "none", on |-> 0, err |-> "none"]
AInit ==
    /\ apc = "run"
    /\ \E kind \in FrameKinds :
           /\ aheap = <<FrameHeader(kind, 0, 1).words>>
           /\ aobjs = <<[cls |-> KindHeader(kind).cls,
                         edv |-> KindHeader(kind).edv, init |-> TRUE,
                         ref |-> 1,
                         expect |-> FrameHeader(kind, 0, 1).words]>>
    /\ acaps = <<>>
    /\ alast = NoStep

\* words = header.words, kept by the caller
Capture(i) ==
    /\ apc = "run"
    /\ i \in 1..Len(aobjs)
    /\ aobjs[i].init
    /\ acaps = <<>>
    /\ acaps' = Append(acaps, [ref |-> aobjs[i].ref,
                               words |-> aheap[aobjs[i].ref]])
    /\ alast' = [op |-> "capture", on |-> i, err |-> "none"]
    /\ UNCHANGED <<apc, aheap, aobjs>>
    /\ UNCHANGED <<oldvars, vvars, gvars, pvars, qvars, wvars, kvars, ovars>>

\* header = header.copy(), as in VDIFFrameSet.fromdata
CopyHeader(i) ==
    /\ apc = "run"
    /\ i \in 1..Len(aobjs)
    /\ Len(aobjs) < MaxObjects
    /\ LET r == copy_object(aheap, aobjs[i])
       IN  /\ aobjs' = IF r.err = "none" THEN Append(aobjs, r.obj)
                       ELSE aobjs
           /\ alast' = [op |-> "copy", on |-> i, err |-> r.err]
    /\ UNCHANGED <<apc, aheap, acaps>>
    /\ UNCHANGED <<oldvars, vvars, gvars, pvars, qvars, wvars, kvars, ovars>>

\* header[item] = value
WriteHeader(i, item, value) ==
    /\ apc = "run"
    /\ i \in 1..Len(aobjs)
    /\ Len(aheap) < MaxVectors
    /\ LET r == setitem(aheap, aobjs[i], item, value)
       IN  /\ aheap' = r.heap
           /\ aobjs' = [aobjs EXCEPT ![i] = r.obj]
           /\ alast' = [op |-> "write", on |-> i, err |-> r.err]
    /\ UNCHANGED <<apc, acaps>>
    /\ UNCHANGED <<oldvars, vvars, gvars, pvars, qvars, wvars, kvars, ovars>>

ANext ==
    \/ \E i \in 1..MaxObjects : Capture(i)
    \/ \E i \in 1..MaxObjects : CopyHeader(i)
    \/ \E i \in 1..MaxObjects, item \in {"thread_id", "frame_nr"},
          value \in {I(3), I(16777216)} : WriteHeader(i, item, value)

(***************************************************************************)
(* The specifications: each machine runs with the others at rest.          *)
(***************************************************************************)
HIdle ==
    /\ raw = <<>> /\ pc = "idle" /\ op = "none" /\ called = "none"
    /\ hdr = NoHeader /\ err = "none" /\ out = <<>> /\ hdr2 = NoHeader
FIdle ==
    /\ fpc = "idle" /\ fhdr = NoHeader /\ fname = "none" /\ fval = None
    /\ fres = Raise("none") /\ fafter = NoHeader
TIdle ==
    /\ tpc = -1 /\ tA = NoTable /\ tB = NoTable /\ tC = NoTable
    /\ tAB = NoTable /\ tBC = NoTable /\ tL = NoTable /\ tR = NoTable
    /\ tE = NoTable
RIdle ==
    /\ rpc = "idle" /\ rdata = <<>> /\ rpos = 0 /\ redv = None
    /\ rverify = TRUE /\ rerr = "none" /\ rhdr = NoHeader
SIdle ==
    /\ spc = "idle" /\ shdr = NoHeader /\ stime = [sec |-> 0, ns |-> 0]
    /\ srate = None /\ serr = "none"

VIdle ==
    /\ vpc = "idle" /\ vkw = NoKw /\ vorder = <<>> /\ vres = Raise("none")
GIdle ==
    /\ gpc = "idle" /\ ghdr = NoHeader /\ gtime = [sec |-> 0, ns |-> 0]
    /\ grate = None /\ gget = None /\ gset = "unset"
    /\ gread = Raise("none")
PIdle ==
    /\ ppc = "idle" /\ porder = "little" /\ pop = "none" /\ pin = <<>>
    /\ pmid = <<>> /\ pout = <<>>
QIdle ==
    /\ qpc = "idle" /\ qhdr = NoHeader /\ qbefore = NoHeader /\ qsize = -1
    /\ qerr = "none" /\ qprops = NoProps
WIdle ==
    /\ wpc = "idle" /\ wdata = <<>> /\ wlayout = <<>> /\ wpos = 0
    /\ wargs = NoArgs /\ wsets = <<>> /\ wlast = NoLast
KIdle ==
    /\ kpc = "idle" /\ kcall = ScanCall("none", "VDIFHeader", NoIds)
    /\ kstream = <<>> /\ klayout = <<>> /\ kg = NoScan /\ kf = NoLocals
    /\ klog = <<>> /\ kres = NoRate /\ kturn = 0
AIdle ==
    /\ apc = "idle" /\ aheap = <<>> /\ aobjs = <<>> /\ acaps = <<>>
    /\ alast = NoStep
(***************************************************************************)
(* The reorder machine: reorder64 on a word, and on the result.  The words *)
(* are those with at most MaxSetBits bits set, those with at most          *)
(* MaxSetBits bits clear, and the word of the comment in the source.       *)
(***************************************************************************)
MaxSetBits == 2

\* A number written in decimal, as a word: the digits are taken in from
\* the left into four limbs of 16 bits (limb 1 the lowest).
RECURSIVE DecimalLimbs(_, _)
DecimalLimbs(limbs, digits) ==
    IF digits = <<>> THEN limbs
    ELSE LET t1 == limbs[1] * 10 + Head(digits)
             t2 == limbs[2] * 10 + t1 \div 65536
             t3 == limbs[3] * 10 + t2 \div 65536
             t4 == limbs[4] * 10 + t3 \div 65536
         IN  DecimalLimbs(<<t1 % 65536, t2 % 65536, t3 % 65536, t4 % 65536>>,
                          Tail(digits))
FromDecimal(digits) ==
    LET limbs == DecimalLimbs(<<0, 0, 0, 0>>, digits)
    IN  UNION {Shl(Bits(limbs[l]), 16 * (l - 1)) : l \in 1..4}

\* 738811025863578102 and 738829572664316278
ReorderExample ==
    FromDecimal(<<7, 3, 8, 8, 1, 1, 0, 2, 5, 8, 6, 3, 5, 7, 8, 1, 0, 2>>)
ReorderExampleOut ==
    FromDecimal(<<7, 3, 8, 8, 2, 9, 5, 7, 2, 6, 6, 4, 3, 1, 6, 2, 7, 8>>)

RECURSIVE WithBits(_)
\* The sets of at most k bit positions.
WithBits(k) ==
    IF k = 0 THEN {{}}
    ELSE LET fewer == WithBits(k - 1)
         IN  fewer \cup {s \cup {i} : s \in fewer, i \in 0..63}
FewBits == WithBits(MaxSetBits)
ReorderWords ==
    FewBits \cup {(0..63) \ s : s \in FewBits} \cup {ReorderExample}

OInit ==
    /\ opc = "start"
    /\ oorder \in {"little", "big"}
    /\ oin \in ReorderWords
    /\ oout = {}
    /\ oback = {}

\* y = reorder64(x)
Reorder ==
    /\ opc = "start"
    /\ oout' = reorder64(oorder, oin)
    /\ opc' = "once"
    /\ UNCHANGED <<oorder, oin, oback>>
    /\ UNCHANGED <<oldvars, vvars, gvars, pvars, qvars, wvars, kvars, avars>>

\* reorder64(y)
ReorderAgain ==
    /\ opc = "once"
    /\ oback' = reorder64(oorder, oout)
    /\ opc' = "twice"
    /\ UNCHANGED <<oorder, oin, oout>>
    /\ UNCHANGED <<oldvars, vvars, gvars, pvars, qvars, wvars, kvars, avars>>

ONext == Reorder \/ ReorderAgain

OIdle ==
    /\ opc = "idle" /\ oorder = "little" /\ oin = {} /\ oout = {}
    /\ oback = {}
XIdle == VIdle /\ GIdle /\ PIdle /\ QIdle /\ WIdle /\ KIdle /\ AIdle /\ OIdle

Init == HInit /\ FIdle /\ TIdle /\ RIdle /\ SIdle /\ XIdle
Next == HNext
Spec == Init /\ [][Next]_vars

InitField == FInit /\ HIdle /\ TIdle /\ RIdle /\ SIdle /\ XIdle
NextField == FNext
SpecField == InitField /\ [][NextField]_vars

InitTable == TInit /\ HIdle /\ FIdle /\ RIdle /\ SIdle /\ XIdle
NextTable == TNext
SpecTable == InitTable /\ [][NextTable]_vars

InitFile == RInit /\ HIdle /\ FIdle /\ TIdle /\ SIdle /\ XIdle
NextFile == RNext
SpecFile == InitFile /\ [][NextFile]_vars

InitTime == SInit /\ HIdle /\ FIdle /\ TIdle /\ RIdle /\ XIdle
NextTime == SNext
SpecTime == InitTime /\ [][NextTime]_vars

OldIdle == HIdle /\ FIdle /\ TIdle /\ RIdle /\ SIdle

InitValues == VInit /\ OldIdle /\ GIdle /\ PIdle /\ QIdle /\ WIdle /\ KIdle
        /\ AIdle
        /\ OIdle
NextValues == VNext
SpecValues == InitValues /\ [][NextValues]_vars

InitClock == GInit /\ OldIdle /\ VIdle /\ PIdle /\ QIdle /\ WIdle /\ KIdle
        /\ AIdle
        /\ OIdle
NextClock == GNext
SpecClock == InitClock /\ [][NextClock]_vars

InitPayload == PInit /\ OldIdle /\ VIdle /\ GIdle /\ QIdle /\ WIdle /\ KIdle
        /\ AIdle
        /\ OIdle
NextPayload == PNext
SpecPayload == InitPayload /\ [][NextPayload]_vars

InitProperty == QInit /\ OldIdle /\ VIdle /\ GIdle /\ PIdle /\ WIdle /\ KIdle
        /\ AIdle
        /\ OIdle
NextProperty == QNext
SpecProperty == InitProperty /\ [][NextProperty]_vars

InitFrameSet ==
    WInit /\ OldIdle /\ VIdle /\ GIdle /\ PIdle /\ QIdle /\ KIdle
        /\ AIdle
        /\ OIdle
NextFrameSet == WNext
SpecFrameSet == InitFrameSet /\ [][NextFrameSet]_vars

InitScan ==
    KInit /\ OldIdle /\ VIdle /\ GIdle /\ PIdle /\ QIdle /\ WIdle
        /\ AIdle
        /\ OIdle
NextScan == KNext
SpecScan == InitScan /\ [][NextScan]_vars
\* Once called, a function runs on: while it has neither returned nor
\* raised, its next step is taken.  (Every state of a running function
\* has a step of NextScan, and every step of NextScan is a ScanStep.)
ScanStep == kpc \notin {"done", "idle"} /\ kturn' = 1 - kturn
SpecScanFair == SpecScan /\ WF_kturn(ScanStep)

InitSharing ==
    AInit /\ OldIdle /\ VIdle /\ GIdle /\ PIdle /\ QIdle /\ WIdle /\ KIdle
        /\ OIdle
NextSharing == ANext
SpecSharing == InitSharing /\ [][NextSharing]_vars

InitReorder ==
    OInit /\ OldIdle /\ VIdle /\ GIdle /\ PIdle /\ QIdle /\ WIdle /\ KIdle
        /\ AIdle
NextReorder == ONext
SpecReorder == InitReorder /\ [][NextReorder]_vars

(***************************************************************************)
(* Properties of the header machine.                                       *)
(***************************************************************************)
\* C1: for every header class and every byte string of the class's struct
\* size on which frombytes returns a header, header.tobytes() returns the
\* byte string.
C1_FromBytesToBytes ==
    (op = "tobytes" /\ called # "VDIFHeader") =>
        (err = "none" /\ out = raw)

\* C4: a header rebuilt from the mapping of a header that verifies, by
\* fromvalues or by fromkeys, has the same word vector.
C4_RebuiltWordsEqual ==
    (op \in {"fromvalues", "fromkeys"} /\ err = "none"
        /\ Verify(hdr) = "none") =>
        hdr2.words = hdr.words

\* The variant that the dispatch on raw words is said to choose.
RegisteredEdv == {1, 2, 3, 4, 171}
SaidClass(words) ==
    IF 30 \in words[1] THEN "VDIFLegacyHeader"
    ELSE LET e == Num(Shr(words[5], 24) \cap Ones(8))
         IN  CASE e = 1 -> "VDIFHeader1"
               [] e = 2 -> "VDIFHeader2"
               [] e = 3 -> "VDIFHeader3"
               [] e = 4 -> "VDIFHeader4"
               [] e = 171 -> "VDIFMark5BHeader"
               [] OTHER -> "VDIFBaseHeader"

\* C5: a VDIFHeader constructed from raw words without an explicit edv is
\* of the Legacy class if bit 30 of word 0 is set, else of the class
\* registered for the edv field, else (any other edv) of the Base class.
C5_Dispatch ==
    (op = "construct" /\ err = "none") =>
        hdr.cls = SaidClass(StructUnpack(Len(raw), raw))

\* What verify is said to require of a header, by class.
SaidEdv(cls) ==
    CASE cls = "VDIFHeader1" -> {1}
      [] cls = "VDIFHeader2" -> {2}
      [] cls = "VDIFHeader3" -> {3}
      [] cls = "VDIFHeader4" -> {4}
      [] cls = "VDIFMark5BHeader" -> {171}
      [] OTHER -> 0..255 \ RegisteredEdv
Required(h) ==
    IF h.cls = "VDIFLegacyHeader"
    THEN /\ Len(h.words) = 4
         /\ 30 \in h.words[1]
    ELSE /\ Len(h.words) = 8
         /\ 30 \notin h.words[1]
         /\ Num(Shr(h.words[5], 24) \cap Ones(8)) \in SaidEdv(h.cls)
         /\ h.cls \in {"VDIFHeader1", "VDIFHeader3", "VDIFHeader4"} =>
                h.words[6] = SyncSampleRate
         /\ h.cls = "VDIFHeader2" =>
                Shr(h.words[5], 4) \cap Ones(20) = SyncEDV2
         /\ h.cls = "VDIFHeader3" =>
                h.words[3] \cap Ones(24) = Bits(629)
         /\ h.cls = "VDIFMark5BHeader" =>
                h.words[3] \cap Ones(24) = Bits(1254)

\* C9: verify succeeds only on a header with the word count of its class,
\* with legacy_mode and edv matching the class, with the sync pattern of
\* the class, and with frame_length 629 (EDV 3) or 1254 (Mark 5B).
C9_VerifyRequires ==
    (op = "verify" /\ err = "none") => Required(hdr)
C9_Witness ==
    /\ op = "verify" /\ err = "none"
    /\ hdr.cls = "VDIFMark5BHeader"

\* The header that the last operation returned or verified without an
\* exception: built from bytes or words with verify, verified, or rebuilt
\* from values or keys.
Verified ==
    IF pc = "done" /\ op \in {"fromvalues", "fromkeys"} THEN hdr2 ELSE hdr
HasVerified ==
    /\ err = "none"
    /\ \/ pc = "loaded" /\ op \in {"frombytes", "construct", "construct_edv"}
       \/ pc = "done" /\ op \in {"verify", "fromvalues", "fromkeys"}
    /\ Verify(Verified) = "none"

\* C14: verify() raises an error on every header whose ref_epoch is beyond
\* the last index of the table of reference epochs, so that no header that
\* was verified (read from bytes, rebuilt from keys or values) has such a
\* ref_epoch.
C14_VerifyRejectsEpoch ==
    HasVerified => FieldNum(Verified, "ref_epoch") <= ref_max - 1

(***************************************************************************)
(* Properties of the field machine.                                        *)
(***************************************************************************)
FieldDef == Lookup(fhdr.parser.items, fname)
FieldBits(def) == {def.lsb + i : i \in 0..(def.len - 1)}
\* 0 <= v < 2^w, which is v & (2^w - 1) == v
Fits(v, w) == v.k \in {"int", "bool"} /\ v.b \subseteq 0..(w - 1)

\* C2: a setter that accepts a value (not None) returns a word vector of
\* the same length in which every bit outside the field is the bit of the
\* input, and the getter of the field returns the value on that vector.
C2_SetterIsolated ==
    (fpc = "done" /\ fval # None /\ fres.err = "none") =>
        /\ Len(fres.val) = Len(fhdr.words)
        /\ \A i \in 1..Len(fhdr.words) :
               fres.val[i] \ (IF i = FieldDef.word + 1
                              THEN FieldBits(FieldDef) ELSE {})
                 = fhdr.words[i] \ (IF i = FieldDef.word + 1
                                    THEN FieldBits(FieldDef) ELSE {})
        /\ PyEq(ParseField(fhdr.parser, fname, fres.val), fval)
\* A value with bits set is written into a field above bit 0 of a word all
\* of whose bits were set.
C2_Witness ==
    /\ fpc = "done" /\ fres.err = "none" /\ fval.k = "int"
    /\ fval.b # {} /\ fval.b # Ones(FieldDef.len)
    /\ FieldDef.lsb > 0 /\ FieldDef.len > 1
    /\ fhdr.words[FieldDef.word + 1] = AllOnes

\* C3: writing a value v (not None) to a field of w bits succeeds exactly
\* when 0 <= v < 2^w and then stores v; otherwise it raises ValueError and
\* the header keeps its words.
C3_SetterRejects ==
    (fpc = "done" /\ fval # None) =>
        /\ (fres.err = "none") <=> Fits(fval, FieldDef.len)
        /\ Fits(fval, FieldDef.len) =>
               /\ fafter.words = fres.val
               /\ PyEq(Field(fafter, fname), fval)
        /\ ~Fits(fval, FieldDef.len) =>
               /\ fres.err = "ValueError"
               /\ fafter = fhdr
\* A value of w + 1 bits was refused by a field of w bits whose bits were
\* not all clear.
C3_Witness ==
    /\ fpc = "done" /\ fres.err = "ValueError"
    /\ fval = PyInt(Ones(FieldDef.len + 1))
    /\ fhdr.words[FieldDef.word + 1] = Pattern
    /\ fafter = fhdr

(***************************************************************************)
(* Properties of the table machine.                                        *)
(***************************************************************************)
\* The merge as the ordered mapping it should be: the names of P in P's
\* order with the definition of C where C has the name, then the names
\* only C has, in C's order.
MergedItems(P, C) ==
    LET New(kv) == kv.name \notin Keys(P.items)
    IN  [i \in 1..Len(P.items) |->
            IF P.items[i].name \in Keys(C.items)
            THEN [name |-> P.items[i].name,
                  def |-> Lookup(C.items, P.items[i].name)]
            ELSE P.items[i]]
        \o SelectSeq(C.items, New)
IsMerge(M, P, C) ==
    /\ M.items = MergedItems(P, C)
    /\ DOMAIN M.parsers = Keys(M.items)
    /\ \A n \in Keys(M.items) :
           /\ M.parsers[n] = ParserOf(Lookup(M.items, n))
           /\ DefaultOf(M, n) = (IF n \in Keys(C.items)
                                 THEN Lookup(C.items, n).dflt
                                 ELSE Lookup(P.items, n).dflt)

\* C6: P + C has the names of P in P's order (with C's definition for the
\* names C overrides) followed by the names new in C, in C's order, and
\* the getter and default of every name are those of its stored definition.
C6_Merge ==
    /\ tpc >= 1 => IsMerge(tAB, tA, tB)
    /\ tpc >= 2 => IsMerge(tBC, tB, tC)
    /\ tpc >= 3 => IsMerge(tL, tAB, tC)
    /\ tpc >= 4 => IsMerge(tR, tA, tBC)
\* tB overrides a name of tA with another definition, keeps another name
\* of tA and adds a name.
C6_Witness ==
    /\ tpc >= 1
    /\ \E n \in Keys(tA.items) \cap Keys(tB.items) :
           ParserOf(Lookup(tA.items, n)) # ParserOf(Lookup(tB.items, n))
    /\ Keys(tA.items) \ Keys(tB.items) # {}
    /\ Keys(tB.items) \ Keys(tA.items) # {}

\* C7: (A + B) + C and A + (B + C) are the same table, and the empty table
\* plus A is A.
C7_MergeAssociative ==
    /\ tpc >= 4 => tL = tR
    /\ tpc >= 5 => tE = tA
\* All three tables define one name, each has a name of its own order, and
\* tA has two names.
C7_Witness ==
    /\ tpc = 5
    /\ Keys(tA.items) \cap Keys(tB.items) \cap Keys(tC.items) # {}
    /\ Len(tA.items) = 2 /\ Len(tB.items) = 2 /\ Len(tC.items) = 2
    /\ Len(tL.items) >= 3

(***************************************************************************)
(* Properties of the file machine.                                         *)
(***************************************************************************)
\* C8: VDIFHeader.fromfile (edv left to be found from the header) raises
\* EOFError on a stream of fewer than 32 bytes; when it returns, the
\* position has advanced by the size of the header returned, which is 16
\* bytes and 4 words if the legacy bit of the stream is set, and 32 bytes
\* and 8 words if not.
C8_FromFile ==
    (rpc = "done" /\ redv = None) =>
        /\ Len(rdata) < 32 => rerr = "EOFError"
        /\ rerr = "none" =>
               LET legacy == 30 \in StructUnpack(32, SubSeq(rdata, 1, 32))[1]
                   size == IF legacy THEN 16 ELSE 32
               IN  /\ rpos = size
                   /\ StructSize(rhdr.cls) = size
                   /\ Len(rhdr.words) = size \div 4

(***************************************************************************)
(* Properties of the time machine.                                         *)
(***************************************************************************)
\* The largest k with ref_epochs[k] <= time.
SaidIndex(time) ==
    CHOOSE k \in 0..(ref_max - 1) :
        /\ TimeAtOrAfter(time, k)
        /\ \A j \in 0..(ref_max - 1) : TimeAtOrAfter(time, j) => j <= k
RateUsed == IF srate = None THEN framerate(shdr).val ELSE Num(srate.b)

\* C10: after set_time(t), ref_epoch is the largest k with
\* ref_epochs[k] <= t (also when t is a reference epoch itself), seconds
\* is the whole number of seconds from that epoch to t, and frame_nr is 0
\* for a fraction below 2 ns and round(fraction * framerate) otherwise.
C10_SetTime ==
    (spc = "done" /\ serr = "none") =>
        /\ FieldNum(shdr, "ref_epoch") = SaidIndex(stime)
        /\ FieldNum(shdr, "seconds") =
               stime.sec - RefEpochSec(SaidIndex(stime))
        /\ FieldNum(shdr, "frame_nr") =
               (IF stime.ns < 2 THEN 0 ELSE RoundFrames(stime.ns, RateUsed))

(***************************************************************************)
(* Properties of the values machine.                                       *)
(***************************************************************************)
\* The place of the key in the sequence, 0 if it is not there.
Position(seq, key) ==
    IF \E i \in 1..Len(seq) : seq[i] = key
    THEN CHOOSE i \in 1..Len(seq) : seq[i] = key
    ELSE 0
PropertyNames ==
    {VDIFSampleRateHeader_properties[i] :
        i \in 1..Len(VDIFSampleRateHeader_properties)}
\* fromvalues returned a header that was given a time with a fraction and
\* a bandwidth
TimeAndBandwidth ==
    /\ vpc = "done"
    /\ vres.err = "none"
    /\ vres.val.cls \in SampleRateClasses
    /\ {"time", "bandwidth"} \subseteq DOMAIN vkw
    /\ vkw["time"].ns >= 2

\* C11: fromvalues writes every field (from the keywords or the defaults)
\* before it calls any setter of a property, and it calls the setter of
\* `bandwidth` before that of `time`, so that the frame_nr of a time with a
\* fraction is the fraction times the frame rate that the bandwidth of the
\* same call implies.
C11_BandwidthBeforeTime ==
    (vpc = "done" /\ vres.err = "none") =>
        /\ \A i, j \in 1..Len(vorder) :
               (vorder[i] \in PropertyNames /\ vorder[j] \notin PropertyNames)
                   => j < i
        /\ TimeAndBandwidth =>
               /\ Position(vorder, "bandwidth") < Position(vorder, "time")
               /\ framerate(vres.val).err = "none" =>
                      FieldNum(vres.val, "frame_nr") =
                          RoundFrames(vkw["time"].ns, framerate(vres.val).val)

(***************************************************************************)
(* Properties of the clock machine.                                        *)
(***************************************************************************)
\* ns nanoseconds at rate Hz, in frames: the whole frames and the rest in
\* units of 1e-9 frame (the product is split so that it stays below 2^31).
FramesWhole(ns, rate) ==
    ((ns \div 1000) * rate + (((ns % 1000) * rate) \div 1000)) \div 1000000
FramesRest(ns, rate) ==
    ((((ns \div 1000) * rate + (((ns % 1000) * rate) \div 1000)) % 1000000)
        * 1000) + (((ns % 1000) * rate) % 1000)
\* |read - time| <= 0.5 / rate, for the time [sec, frames, rate] read:
\* read - time is k - rest / 1e9 frames, for k whole.
Within(time, read) ==
    /\ read.sec - time.sec \in {-1, 0, 1}
    /\ LET k == (read.sec - time.sec) * read.rate + read.frames
                    - FramesWhole(time.ns, read.rate)
           rest == FramesRest(time.ns, read.rate)
       IN  \/ k = 0 /\ 2 * rest <= NsPerSec
           \/ k = 1 /\ 2 * rest >= NsPerSec
\* The header has a frame rate of its own, a positive one; its time was
\* set and then read, both without a framerate argument.
SetAndRead ==
    /\ gpc = "read"
    /\ gset = "none"
    /\ gread.err = "none"
    /\ grate = None
    /\ gget = None
    /\ ghdr.cls \in SampleRateClasses
    /\ framerate(ghdr).err = "none"
    /\ framerate(ghdr).val > 0
\* The time read, with the header's rate where the offset is 0.
ReadTime == [gread.val EXCEPT !.rate = framerate(ghdr).val]
\* The frame rate up to which half a frame is no less than 2 ns.
HalfFrameRate == NsPerSec \div (2 * 2)

MissingFrameRate == "ValueError"
NoRateClasses == {"VDIFLegacyHeader", "VDIFBaseHeader", "VDIFHeader2"}

SaidHeaderSize(cls) == IF cls = "VDIFLegacyHeader" THEN 16 ELSE 32

\* C16: framesize = frame_length * 8, and the setter rejects a size that 8
\* does not divide; payloadsize = framesize - the header's size (16 or
\* 32); bps = bits_per_sample + 1, doubled if complex_data is set; nchan =
\* 2 ** lg2_nchan; samples_per_frame = ((payloadsize / 4) * (32 div bps))
\* div nchan.
C16_Properties ==
    /\ qpc = "read" =>
           /\ qprops.framesize = FieldNum(qhdr, "frame_length") * 8
           /\ qprops.payloadsize
                  = qprops.framesize - SaidHeaderSize(qhdr.cls)
           /\ qprops.bps
                  = IF Truthy(Field(qhdr, "complex_data"))
                    THEN 2 * (FieldNum(qhdr, "bits_per_sample") + 1)
                    ELSE FieldNum(qhdr, "bits_per_sample") + 1
           /\ qprops.nchan = 2 ^ FieldNum(qhdr, "lg2_nchan")
           /\ qprops.samples_per_frame
                  = ((qprops.payloadsize \div 4) * (32 \div qprops.bps))
                        \div qprops.nchan
    /\ (qpc # "start" /\ qsize >= 0) =>
           /\ qsize % 8 # 0 => (qerr # "none" /\ qhdr = qbefore)
           /\ (qerr = "none" /\ qpc = "read") => qprops.framesize = qsize
C16_Witness ==
    /\ qpc = "read"
    /\ qsize = 5032
    /\ qerr = "none"
    /\ qprops.samples_per_frame > 0
    /\ qprops.bps = 4
    /\ qprops.nchan = 8

(***************************************************************************)
(* Properties of the frame set machine.                                    *)
(***************************************************************************)
\* The frames of the stream whose header can be read: 32 bytes from their
\* start.
HeaderIn(i) == wlayout[i].at + eight_word_size <= Len(wdata)
\* The frame of the stream that starts at the position, 0 if none does.
FrameAt(pos) ==
    IF \E i \in 1..Len(wlayout) : wlayout[i].at = pos /\ HeaderIn(i)
    THEN CHOOSE i \in 1..Len(wlayout) : wlayout[i].at = pos
    ELSE 0
\* The frames after frame i whose frame number is not that of frame i.
Differing(i) ==
    {j \in (i + 1)..Len(wlayout) :
        HeaderIn(j) /\ wlayout[j].frame_nr # wlayout[i].frame_nr}
\* Where the run of frames that starts with frame i ends: at the first
\* header with another frame number, or at the end of the stream.
RunEnd(i) ==
    IF Differing(i) = {} THEN Len(wdata)
    ELSE wlayout[CHOOSE j \in Differing(i) :
                     \A k \in Differing(i) : j <= k].at
\* Whether fromfile was asked for the thread.
Asked(thread) ==
    \/ wargs.thread_ids.none
    \/ \E i \in 1..Len(wargs.thread_ids.ids) :
           wargs.thread_ids.ids[i] = thread
\* The places in the stream of the frames of the thread in a sequence of
\* frames that were read, and in the stream from start up to end (the
\* frames that the stream holds whole).
RECURSIVE PlacesOf(_)
PlacesOf(frames) ==
    IF frames = <<>> THEN <<>>
    ELSE <<frames[1].header.id>> \o PlacesOf(Tail(frames))
Delivered(set, thread) ==
    PlacesOf(SelectSeq(set.frames, LAMBDA f : FrameThread(f) = thread))
RECURSIVE InStream(_, _, _, _)
InStream(i, start, end, thread) ==
    IF i > Len(wlayout) THEN <<>>
    ELSE (IF /\ wlayout[i].thread_id = thread
             /\ start <= wlayout[i].at /\ wlayout[i].at < end
             /\ wlayout[i].at + wlayout[i].size <= Len(wdata)
          THEN <<wlayout[i].at>> ELSE <<>>)
             \o InStream(i + 1, start, end, thread)
StreamSets == IF wpc \in {"reading", "done"} THEN 1..Len(wsets) ELSE {}

\* C17: when VDIFFrameSet.fromfile returns, the reader is at the start of
\* the first header whose frame_nr is not that of the first header read,
\* or at the end of the stream if there is none; so call after call reads
\* run after run, and the frames of each thread asked for come in the
\* order of the stream, none skipped and none twice.
C17_ConsecutiveRuns ==
    \A k \in StreamSets :
        /\ FrameAt(wsets[k].start) # 0
        /\ wsets[k].end = RunEnd(FrameAt(wsets[k].start))
        /\ \A thread \in {0, 1} :
               Asked(thread) =>
                   Delivered(wsets[k].set, thread)
                       = InStream(1, wsets[k].start, wsets[k].end, thread)

\* The number of thread ids asked for.
AskedFor == IF wargs.thread_ids.none THEN 0 ELSE Len(wargs.thread_ids.ids)
\* C18: when the loop of VDIFFrameSet.fromfile has ended with fewer frames
\* than thread ids were asked for, EOFError leaves fromfile if a header
\* read met the end of the stream, and IOError (the frame set is not
\* complete) otherwise; with at least as many frames, a frame set is
\* returned.
C18_TooFewFrames ==
    (wpc \in {"reading", "done"} /\ wlast.ended) =>
        IF wlast.found < AskedFor
        THEN /\ wlast.exc => wlast.err = "EOFError"
             /\ ~wlast.exc => wlast.err = "IOError"
             /\ wpc = "done"
        ELSE /\ wlast.err = "none"
             /\ wpc = "reading"
             /\ wsets # <<>>
             /\ wsets[Len(wsets)].set = wlast.set
             /\ Len(wlast.set.frames) = wlast.found
C18_Witness ==
    /\ wpc = "done"
    /\ wlast.ended
    /\ wlast.exc
    /\ wlast.found = 1
    /\ AskedFor = 2
    /\ wlast.err = "EOFError"
    /\ wsets # <<>>

\* C19: with sort, the frames of a frame set read from a stream are in
\* the order of their thread_id, none before one with a lesser thread_id;
\* without, they are in the order of the stream.
C19_SortedByThread ==
    \A k \in StreamSets :
        \A i \in 1..(Len(wsets[k].set.frames) - 1) :
            IF wargs.sort
            THEN FrameThread(wsets[k].set.frames[i])
                     <= FrameThread(wsets[k].set.frames[i + 1])
            ELSE wsets[k].set.frames[i].payload.at
                     < wsets[k].set.frames[i + 1].payload.at
C19_Witness ==
    \E k \in StreamSets :
        /\ wargs.sort
        /\ Len(wsets[k].set.frames) = 3
        /\ wsets[k].set.frames[1].payload.at
               > wsets[k].set.frames[3].payload.at
        /\ FrameThread(wsets[k].set.frames[1]) = 0
        /\ FrameThread(wsets[k].set.frames[3]) = 1

\* C20: header0 of a frame set is the header of its first frame, for a
\* frame set made by fromdata (the constructor's default) and for one read
\* by fromfile, whatever thread_ids and sort.
C20_Header0IsFirst ==
    \A k \in 1..Len(wsets) :
        /\ wsets[k].set.frames # <<>>
        /\ wsets[k].set.header0 = wsets[k].set.frames[1].header
\* Whether no frame of the set has a thread_id less than that of header0.
LeastThread(set) ==
    \A i \in 1..Len(set.frames) :
        FieldNum(set.header0.hdr, "thread_id") <= FrameThread(set.frames[i])
\* C20, amended: header0 of a frame set made by fromdata is the header of
\* its first frame; header0 of a frame set read by fromfile is the first
\* header read, the one where the call started, and it is the header of
\* the first frame if its thread was asked for and, with sort, no frame
\* of the set has a lesser thread_id.
C20_Header0IsFirstRead ==
    /\ wpc = "data" =>
           \A k \in 1..Len(wsets) :
               /\ wsets[k].set.frames # <<>>
               /\ wsets[k].set.header0 = wsets[k].set.frames[1].header
    /\ \A k \in StreamSets :
           /\ wsets[k].set.header0.id = wsets[k].start
           /\ (/\ Asked(FieldNum(wsets[k].set.header0.hdr, "thread_id"))
               /\ wargs.sort => LeastThread(wsets[k].set))
                  => /\ wsets[k].set.frames # <<>>
                     /\ wsets[k].set.header0 = wsets[k].set.frames[1].header
C20_Witness ==
    \E k \in StreamSets :
        /\ wargs.sort
        /\ Len(wsets[k].set.frames) = 2
        /\ wsets[k].set.header0 = wsets[k].set.frames[2].header
        /\ wsets[k].start > 0


(***************************************************************************)
(* get_frame_rate and the loops over the headers of a stream               *)
(***************************************************************************)
\* The stream of a call of get_frame_rate has a first header with frame_nr
\* 0, a header with frame_nr > 0 at place `from` after headers with
\* frame_nr 0 only, and a header with frame_nr 0 again at place `to`
\* after headers with frame_nr > 0 only.
SpanOf(from, to) ==
    /\ 1 < from /\ from < to /\ to <= Len(klayout)
    /\ \A i \in 1..(from - 1) : klayout[i].frame_nr = 0
    /\ \A i \in from..(to - 1) : klayout[i].frame_nr > 0
    /\ klayout[to].frame_nr = 0
SpanMax(from, to) ==
    CHOOSE m \in {klayout[i].frame_nr : i \in from..(to - 1)} :
        \A i \in from..(to - 1) : klayout[i].frame_nr <= m

\* C21: get_frame_rate, on a stream whose first header has frame_nr 0,
\* skips to the first header with frame_nr > 0, scans the headers until
\* frame_nr is 0 again and returns 1 + the greatest frame_nr among the
\* headers scanned, in whatever order the frame numbers come; if the
\* second did not go up by 1 there is a warning, and the value is
\* returned all the same.
C21_FrameRate ==
    (kpc = "done" /\ kcall.fn = "get_frame_rate") =>
        \A from, to \in 1..Len(klayout) :
            SpanOf(from, to) =>
                /\ kres.err = "none"
                /\ kres.val = 1 + SpanMax(from, to)
                /\ kres.warn =
                       (klayout[to].seconds # klayout[1].seconds + 1)

\* C22: on every finite stream, whatever frame_length its headers say,
\* VDIFFrameSet.fromfile and get_frame_rate come to an end: each returns
\* or raises.
C22_Terminates == <>(kpc = "done")

\* The thread is on the allow-list of the call (any thread, if there is
\* none).
Allowed(thread) ==
    \/ kcall.thread_ids.none
    \/ \E i \in 1..Len(kcall.thread_ids.ids) : kcall.thread_ids.ids[i] = thread
\* The frames of the stream up to the first with another frame number
\* than the first frame.
InRun(i) == \A j \in 1..i : klayout[j].frame_nr = klayout[1].frame_nr
WholeFrames == \A i \in 1..Len(klayout) : klayout[i].frame_length = 6
HeaderPlaces(set) == {set.frames[i].header.id : i \in 1..Len(set.frames)}

\* C25: every frame of a frame set that VDIFFrameSet.fromfile returns has
\* the frame_nr of the first header read and, if thread_ids is given, a
\* thread_id on that list; a frame of another thread in the run is passed
\* over by its payloadsize exactly (the next header is read that many
\* bytes after its header) and is not in the set.
C25_FramesOfRun ==
    (kpc = "done" /\ kcall.fn = "fromfile" /\ kres.err = "none") =>
        /\ \A i \in 1..Len(kres.set.frames) :
               /\ FieldNum(kres.set.frames[i].header.hdr, "frame_nr")
                      = klog[1].frame_nr
               /\ Allowed(FrameThread(kres.set.frames[i]))
        /\ \A i \in 1..Len(klog) :
               (klog[i].frame_nr = klog[1].frame_nr
                    /\ ~Allowed(klog[i].thread_id)) =>
                   /\ ~klog[i].kept
                   /\ klog[i].at \notin HeaderPlaces(kres.set)
                   /\ i < Len(klog) =>
                          klog[i + 1].at
                              = klog[i].after + klog[i].payloadsize
        /\ WholeFrames =>
               HeaderPlaces(kres.set)
                   = {(i - 1) * 48 : i \in {j \in 1..Len(klayout) :
                         InRun(j) /\ Allowed(klayout[j].thread_id)}}
\* A set of thread 1 alone was returned from a run that has a frame of
\* thread 0 before the frame of thread 1.
C25_Witness ==
    /\ kpc = "done" /\ kcall.fn = "fromfile" /\ kres.err = "none"
    /\ kcall.thread_ids = Ids(<<1>>)
    /\ Len(kres.set.frames) = 1
    /\ Len(klog) >= 2
    /\ ~klog[1].kept /\ klog[1].thread_id = 0
    /\ klog[2].kept /\ klog[2].frame_nr = klog[1].frame_nr

(***************************************************************************)
(* Word vectors are replaced, not changed                                  *)
(***************************************************************************)
\* The fields that the header object reads now, and those of the words w.
FieldsOf(o) ==
    [item \in Keys(ParserFor(o.cls).items) |->
        Field(Deref(aheap, o), item)]
FieldsOfWords(o, w) ==
    [item \in Keys(ParserFor(o.cls).items) |->
        ParseField(ParserFor(o.cls), item, w)]

\* C23: a field write binds a new word vector to header.words and leaves
\* the vector that was there as it is: a vector captured before reads as
\* it did then, and a header made by copy(), or the header the copy was
\* made of, reads the values it had for every field, whatever is written
\* to the other.
C23_VectorsKept ==
    /\ \A c \in 1..Len(acaps) : aheap[acaps[c].ref] = acaps[c].words
    /\ \A i \in 1..Len(aobjs) :
           aobjs[i].init =>
               FieldsOf(aobjs[i]) = FieldsOfWords(aobjs[i], aobjs[i].expect)
    /\ (alast.op = "write" /\ alast.err = "none") =>
           /\ \A j \in 1..Len(aobjs) :
                  j # alast.on => aobjs[j].ref # aobjs[alast.on].ref
           /\ \A c \in 1..Len(acaps) : acaps[c].ref # aobjs[alast.on].ref
\* A header was copied and its words captured, and one of the two
\* headers was then written to: the two now read differently, and the
\* words captured are not those of the header written to.
C23_Witness ==
    /\ Len(aobjs) >= 2 /\ aobjs[1].init /\ aobjs[2].init
    /\ acaps # <<>>
    /\ alast.op = "write" /\ alast.err = "none" /\ alast.on \in {1, 2}
    /\ FieldsOf(aobjs[1]) # FieldsOf(aobjs[2])
    /\ acaps[1].words # aheap[aobjs[alast.on].ref]
    /\ acaps[1].ref \in {aobjs[1].ref, aobjs[2].ref}

(***************************************************************************)
(* The words of a header after a write, on the field machine.              *)
(***************************************************************************)
\* The word vector has the word count of the class and every word is in
\* 0..2^32-1.
WordsPackable(h) ==
    /\ Len(h.words) = StructSize(h.cls) \div 4
    /\ \A i \in 1..Len(h.words) : h.words[i] \subseteq 0..31

\* C24: after a write header[name] = v that succeeds, on a header whose
\* words had the word count of its class (4 or 8) with every word in
\* 0..2^32-1, the header again has that word count and every word in
\* 0..2^32-1, so that tobytes() returns its bytes; this for every field,
\* das_id of EDV 1 and PSN of EDV 2 included.
C24_WordsIn32Bits ==
    (fpc = "done" /\ fres.err = "none") =>
        /\ WordsPackable(fafter)
        /\ tobytes(fafter).err = "none"


(***************************************************************************)
(* Properties of the reorder machine.                                      *)
(***************************************************************************)
\* The bit that bit b of a 16-bit lane is exchanged with: 2j+1 with 8+2j
\* for j = 0..3, every other bit with itself.
LanePartner(b) ==
    IF b < 8 /\ b % 2 = 1 THEN b + 7
    ELSE IF b >= 8 /\ b % 2 = 0 THEN b - 7
    ELSE b
BitPartner(i) == 16 * (i \div 16) + LanePartner(i % 16)

\* C26: on a little-endian host reorder64 is a permutation of the 64 bits
\* that is its own inverse: bit i of the result is the bit of x that i is
\* exchanged with in its 16-bit lane (2j+1 with 8+2j, j = 0..3, the other
\* bits in place), reorder64(reorder64(x)) is x, and
\* reorder64(738811025863578102) is 738829572664316278.
C26_ReorderSelfInverse ==
    (oorder = "little" /\ opc \in {"once", "twice"}) =>
        /\ oout = {i \in 0..63 : BitPartner(i) \in oin}
        /\ opc = "twice" => oback = oin
        /\ oin = ReorderExample => oout = ReorderExampleOut
\* The word of the example was reordered twice; the first result differs
\* from the word, in bits of an exchanged pair.
C26_Witness ==
    /\ oorder = "little" /\ opc = "twice"
    /\ oin = ReorderExample /\ oout = ReorderExampleOut /\ oout # oin
    /\ 7 \in oin /\ 14 \notin oin /\ 14 \in oout /\ 7 \notin oout
    /\ oback = oin


(***************************************************************************)
(* The frame number that set_time stores, on the time machine.             *)
(***************************************************************************)
\* C27: after set_time(t) has succeeded on a header with a positive whole
\* frame rate (the one given, or the header's own), the frame_nr stored is
\* below the number of frames in a second, also for a t whose fraction of
\* a second is within half a frame of the next whole second.
C27_FrameNrBelowRate ==
    (spc = "done" /\ serr = "none" /\ RateOf(shdr, srate) > 0) =>
        FieldNum(shdr, "frame_nr") < RateOf(shdr, srate)
====
